---- MODULE Spec2Model ----
(***************************************************************************)
(* Model of twk (tascord/wiki): the guarded cell Locked<T> of              *)
(* src/helpers.rs and the record store Wiki of src/wiki.rs.                *)
(*                                                                         *)
(* LockSpec : threads calling read()/write() on one Locked<Information>,   *)
(*            one atomic memory operation per step.                        *)
(* Spec     : one Wiki used from its owning thread (commit, recall,        *)
(*            recall_by_tag, the TUI edits through a WritableKey) plus the *)
(*            loader threads of load_or_create.                            *)
(* LibSpec  : the thread-local context of src/lib.rs: set_use_global,      *)
(*            switch, commit, recall, recall_by_tag and book called from   *)
(*            several threads.                                             *)
(* ScanSpec : one recall or recall_by_tag, a step per Key taken or         *)
(*            dropped by its loop.                                         *)
(* FairLockSpec : LockSpec with finitely many acquisitions and threads     *)
(*            that go on running.                                          *)
(* TuiSpec  : the terminal interface's loop on an App.                     *)
(***************************************************************************)
EXTENDS Integers, Sequences, FiniteSets, TLC

VARIABLES
    \* ---- one Locked<Information> under concurrent access (LockSpec) ----
    readers,      \* Locked.readers : AtomicUsize
    writer,       \* Locked.writer  : AtomicBool
    in_memory,    \* Locked.in_memory : the Information value
    file,         \* content of the backing file, a sequence of tokens
    fpos,         \* cursor of the File handle kept in Locked.file
    pc,           \* pc[t] : where thread t is inside read()/write()/drop
    seen,         \* seen[t] : <<v>> once t dereferenced its Key, else <<>>
    clean,        \* clean[t] : no WritableKey was live since t got its Key
    nacq,         \* number of write() calls made so far
    \* ---- one Wiki (Spec) ----
    disk,         \* disk[id] : content of <dir>/<id>.json, or NoFile
    dirExists,    \* the store directory exists
    info,         \* Wiki.info : Vec<Locked<Information>>
    phase,        \* "ready", or "loading" while load_or_create joins
    pending,      \* files whose loader thread has not run yet
    results,      \* the Arc<Mutex<Vec<_>>> the loaders push into
    nextId,       \* stands for Uuid::new_v4()
    last,         \* the last operation and its return value
    answer,       \* what the last recall / recall_by_tag returned
    scored,       \* scored_results of the last recall, after the sort
    nLoaded,      \* records in the store when load_or_create returned
    nCommitted,   \* commits that returned Ok since then
    created,      \* records built by a successful commit
    edited,       \* ids written through a WritableKey
    nops,         \* commits, edits and loads made so far
    fault,        \* the last operation met an I/O error
    openFailed,   \* files the last load_or_create could not open
    \* ---- the library context of lib.rs (LibSpec) ----
    current,      \* current[t] : CURRENT_WIKI of thread t, <<>> or <<Wiki>>
    useGlobal,    \* useGlobal[t] : USE_GLOBAL of thread t
    caller,       \* the thread that made the last library call
    fs,           \* fs[path] : a store directory, whether it exists, its files
    localRoot,    \* the project-local root .wiki exists
    dataDir,      \* dirs::data_local_dir(): <<>> for None, <<dir>> for Some
    \* ---- a recall or recall_by_tag in progress (ScanSpec) ----
    scan,         \* the call, the cell its loop is at, what it has collected
    \* ---- the terminal interface (TuiSpec) ----
    app,          \* the App: rows, selection, mode, buffers, flags
    loopAt        \* where run_app's loop is: "off", "draw", "event", "quit"

lockVars == <<readers, writer, in_memory, file, fpos, pc, seen, clean, nacq>>
storeVars == <<disk, dirExists, info, phase, pending, results, nextId, last,
               answer, scored, nLoaded, nCommitted, created, edited, nops,
               fault, openFailed>>
libVars == <<current, useGlobal, caller, fs, localRoot, dataDir>>
scanVars == <<scan>>
tuiVars == <<app, loopAt>>
vars == <<lockVars, storeVars, libVars, scanVars, tuiVars>>

----------------------------------------------------------------------------
\* Bounds of the model.

NThreads == 3
MaxAcquire == 2
MaxOps == 4

Threads == 1..NThreads
Ids == 1..MaxOps

----------------------------------------------------------------------------
\* Strings are sequences of characters; a record is an Information.

Texts == { <<"a", "b">>, <<"A", "x", "b">> }
Tags == { "p", "P", "w" }
Queries == { <<>>, <<"a", "b">>, <<"x", "b">>, <<"A", "b">> }
\* The (fact, tags) arguments commit is called with.
Facts == { [fact |-> <<"a", "b">>, tags |-> <<"p">>],
           [fact |-> <<"A", "x", "b">>, tags |-> <<"P", "w">>] }

Information(id, tags, name, data) ==
    [id |-> id, tags |-> tags, name |-> name, data |-> data]

NoFile == << [k |-> "absent", n |-> 0, s |-> <<>>] >>

----------------------------------------------------------------------------
\* serde_json::to_string_pretty / from_reader on an Information, as a
\* sequence of tokens: { id [ tag* ] name data }.

Tok(k, n, s) == [k |-> k, n |-> n, s |-> s]

SerializeNoTags(r) ==
    << Tok("{", 0, <<>>), Tok("id", r.id, <<>>), Tok("[", 0, <<>>),
       Tok("]", 0, <<>>), Tok("str", 0, r.name), Tok("str", 0, r.data),
       Tok("}", 0, <<>>) >>

Serialize(r) ==
    << Tok("{", 0, <<>>), Tok("id", r.id, <<>>), Tok("[", 0, <<>>) >>
    \o [i \in 1..Len(r.tags) |-> Tok("tag", 0, <<r.tags[i]>>)]
    \o << Tok("]", 0, <<>>), Tok("str", 0, r.name), Tok("str", 0, r.data),
          Tok("}", 0, <<>>) >>

\* Index of the first token at or after i that is not a tag (Len(f)+1 if none).
RECURSIVE TagsEnd(_, _)
TagsEnd(f, i) ==
    IF i > Len(f) \/ f[i].k # "tag" THEN i ELSE TagsEnd(f, i + 1)

\* The whole content must be one value: trailing tokens are an error
\* (Deserializer::end), as is an empty or truncated file.
WellFormedPrefix(f) ==
    /\ Len(f) >= 7
    /\ f[1].k = "{" /\ f[2].k = "id" /\ f[3].k = "["
    /\ LET j == TagsEnd(f, 4) IN
         /\ j + 3 <= Len(f)
         /\ f[j].k = "]" /\ f[j+1].k = "str" /\ f[j+2].k = "str"
         /\ f[j+3].k = "}"

WellFormed(f) ==
    /\ Len(f) >= 7
    /\ f[1].k = "{" /\ f[2].k = "id" /\ f[3].k = "["
    /\ LET j == TagsEnd(f, 4) IN
         /\ j + 3 = Len(f)
         /\ f[j].k = "]" /\ f[j+1].k = "str" /\ f[j+2].k = "str"
         /\ f[j+3].k = "}"

Deserialize(f) ==
    LET j == TagsEnd(f, 4) IN
    Information(f[2].n, [i \in 1..(j - 4) |-> f[3 + i].s[1]], f[j+1].s, f[j+2].s)

\* File::write_all at the handle's cursor: bytes from the cursor on are
\* overwritten, the file grows when the write runs past its end, and nothing
\* is truncated.
WriteAt(f, pos, s) ==
    SubSeq(f, 1, pos) \o s \o SubSeq(f, pos + Len(s) + 1, Len(f))

----------------------------------------------------------------------------
\* LockSpec: one cell, made by Locked::new(path, LockV0).

LockV0 == Information(1, <<"p">>, <<"a">>, <<"a">>)
LockVals == { LockV0, Information(1, <<"p">>, <<"a">>, <<"b">>) }

ExclusiveLive == { t \in Threads : pc[t] \in {"w_hold", "w_clear"} }
SharedLive == { t \in Threads : pc[t] = "r_hold" }

\* helpers.rs:75  while self.writer.load(SeqCst) { spin_loop() }
ReadMustSpinOnReaders == writer \/ readers > 0
ReadMustSpinWriterWaits ==
    writer \/ \E u \in Threads : pc[u] \in {"w_spin", "w_spin2", "w_set"}
ReadMustSpin == writer

\* helpers.rs:87  the two loads of the write() loop condition
WriteSeesWriter == writer
WriteSeesReadersOrNone == readers >= 0
WriteSeesReaders == readers > 0

\* The threads that call the library, the store names they switch to, and
\* what dirs::data_local_dir() can return.
LibThreads == { "A", "B" }
Names == { "n" }
DataDirs == { <<>>, <<"data">> }

\* Paths are sequences of components.  Wiki::get_wiki_path: the global path
\* is <data-dir>/twk/<name>, with "." for a missing data dir; the local one
\* is .wiki/<name>.
GlobalPath(name, dd) == (IF dd = <<>> THEN <<".">> ELSE dd) \o <<"twk", name>>
LocalPath(name) == <<".wiki", name>>
StorePaths ==
    { LocalPath(n) : n \in Names } \cup
    { GlobalPath(n, dd) : n \in Names, dd \in DataDirs }

\* A store directory that does not exist.
NoDir == [exists |-> FALSE, files |-> [i \in Ids |-> NoFile]]

\* No recall or recall_by_tag is in progress, and no terminal interface runs.
ScanIdle ==
    /\ scan = [op |-> "none", i |-> 0, q |-> <<>>, tagf |-> <<>>, acc |-> <<>>,
               holding |-> FALSE]
    /\ app = <<>>
    /\ loopAt = "off"

\* No thread has called the library.
LibIdle ==
    /\ current = [t \in LibThreads |-> <<>>]
    /\ useGlobal = [t \in LibThreads |-> FALSE]
    /\ caller = "A"
    /\ fs = [p \in StorePaths |-> NoDir]
    /\ localRoot = FALSE
    /\ dataDir = <<"data">>

StoreInit ==
    /\ disk = [i \in Ids |-> NoFile]
    /\ dirExists \in BOOLEAN
    /\ info = <<>>
    /\ phase = "ready"
    /\ pending = {}
    /\ results = <<>>
    /\ nextId = 1
    /\ last = [op |-> "new", ok |-> TRUE, id |-> 0, text |-> <<>>, tags |-> <<>>]
    /\ answer = <<>>
    /\ scored = <<>>
    /\ nLoaded = 0
    /\ nCommitted = 0
    /\ created = {}
    /\ edited = {}
    /\ nops = 0
    /\ fault = FALSE
    /\ openFailed = {}

LockInit ==
    /\ readers = 0
    /\ writer = FALSE
    /\ in_memory = LockV0
    /\ file = Serialize(LockV0)
    /\ fpos = Len(Serialize(LockV0))
    /\ pc = [t \in Threads |-> "idle"]
    /\ seen = [t \in Threads |-> <<>>]
    /\ clean = [t \in Threads |-> FALSE]
    /\ nacq = 0

\* read(): entry
CallRead(t) ==
    /\ pc[t] = "idle"
    /\ pc' = [pc EXCEPT ![t] = "r_spin"]
    /\ UNCHANGED <<readers, writer, in_memory, file, fpos, seen, clean, nacq>>
    /\ UNCHANGED <<storeVars, libVars, scanVars, tuiVars>>

\* read(): one evaluation of the loop condition
ReadSpin(t) ==
    /\ pc[t] = "r_spin"
    /\ pc' = [pc EXCEPT ![t] = IF ReadMustSpin THEN "r_spin" ELSE "r_inc"]
    /\ UNCHANGED <<readers, writer, in_memory, file, fpos, seen, clean, nacq>>
    /\ UNCHANGED <<storeVars, libVars, scanVars, tuiVars>>

\* read(): readers.fetch_add(1) and the Key is returned
ReadGrant(t) ==
    /\ pc[t] = "r_inc"
    /\ readers' = readers + 1
    /\ pc' = [pc EXCEPT ![t] = "r_hold"]
    /\ clean' = [clean EXCEPT ![t] = (ExclusiveLive = {})]
    /\ UNCHANGED <<writer, in_memory, file, fpos, seen, nacq>>
    /\ UNCHANGED <<storeVars, libVars, scanVars, tuiVars>>

\* Deref for Key: a read of in_memory. While a WritableKey is live the read
\* races with its writes, so any value may be observed.
Observe(t) ==
    /\ pc[t] = "r_hold"
    /\ seen[t] = <<>>
    /\ \E v \in (IF ExclusiveLive = {} THEN {in_memory} ELSE LockVals) :
         seen' = [seen EXCEPT ![t] = <<v>>]
    /\ UNCHANGED <<readers, writer, in_memory, file, fpos, pc, clean, nacq>>
    /\ UNCHANGED <<storeVars, libVars, scanVars, tuiVars>>

\* AtomicUsize::fetch_sub(1, SeqCst) on the reader counter
FetchSubLost(n) == n
FetchSub(n) == n - 1

\* Drop for Key: readers.fetch_sub(1)
DropKey(t) ==
    /\ pc[t] = "r_hold"
    /\ readers' = FetchSub(readers)
    /\ pc' = [pc EXCEPT ![t] = "idle"]
    /\ seen' = [seen EXCEPT ![t] = <<>>]
    /\ clean' = [clean EXCEPT ![t] = FALSE]
    /\ UNCHANGED <<writer, in_memory, file, fpos, nacq>>
    /\ UNCHANGED <<storeVars, libVars, scanVars, tuiVars>>

\* write(): entry
CallWrite(t) ==
    /\ pc[t] = "idle"
    /\ nacq < MaxAcquire
    /\ nacq' = nacq + 1
    /\ pc' = [pc EXCEPT ![t] = "w_spin"]
    /\ UNCHANGED <<readers, writer, in_memory, file, fpos, seen, clean>>
    /\ UNCHANGED <<storeVars, libVars, scanVars, tuiVars>>

\* write(): self.writer.load(SeqCst), the left operand of ||
WriteSpinWriter(t) ==
    /\ pc[t] = "w_spin"
    /\ pc' = [pc EXCEPT ![t] = IF WriteSeesWriter THEN "w_spin" ELSE "w_spin2"]
    /\ UNCHANGED <<readers, writer, in_memory, file, fpos, seen, clean, nacq>>
    /\ UNCHANGED <<storeVars, libVars, scanVars, tuiVars>>

\* write(): self.readers.load(SeqCst) > 0, the right operand of ||
WriteSpinReaders(t) ==
    /\ pc[t] = "w_spin2"
    /\ pc' = [pc EXCEPT ![t] = IF WriteSeesReaders THEN "w_spin" ELSE "w_set"]
    /\ UNCHANGED <<readers, writer, in_memory, file, fpos, seen, clean, nacq>>
    /\ UNCHANGED <<storeVars, libVars, scanVars, tuiVars>>

\* write(): writer.fetch_or(true) and the WritableKey is returned
WriteGrant(t) ==
    /\ pc[t] = "w_set"
    /\ writer' = TRUE
    /\ pc' = [pc EXCEPT ![t] = "w_hold"]
    /\ clean' = [u \in Threads |-> FALSE]
    /\ UNCHANGED <<readers, in_memory, file, fpos, seen, nacq>>
    /\ UNCHANGED <<storeVars, libVars, scanVars, tuiVars>>

\* DerefMut for WritableKey: the holder assigns the value
Mutate(t) ==
    /\ pc[t] = "w_hold"
    /\ \E v \in LockVals : v # in_memory /\ in_memory' = v
    /\ UNCHANGED <<readers, writer, file, fpos, pc, seen, clean, nacq>>
    /\ UNCHANGED <<storeVars, libVars, scanVars, tuiVars>>

\* The writer flag across the first half of Drop for WritableKey: the store
\* of false comes after write_all has returned.
FlagClearedBeforeWrite(w) == FALSE
FlagDuringWriteBack(w) == w

\* Drop for WritableKey, first half: to_string_pretty and write_all, whose
\* error is dropped (let _ =)
WriteBack(t) ==
    /\ pc[t] = "w_hold"
    /\ \E ok \in BOOLEAN :
         IF ok
         THEN /\ file' = WriteAt(file, fpos, Serialize(in_memory))
              /\ fpos' = fpos + Len(Serialize(in_memory))
         ELSE UNCHANGED <<file, fpos>>
    /\ pc' = [pc EXCEPT ![t] = "w_clear"]
    /\ writer' = FlagDuringWriteBack(writer)
    /\ UNCHANGED <<readers, in_memory, seen, clean, nacq>>
    /\ UNCHANGED <<storeVars, libVars, scanVars, tuiVars>>

\* Drop for WritableKey, second half: writer.store(false)
ClearWriter(t) ==
    /\ pc[t] = "w_clear"
    /\ writer' = FALSE
    /\ pc' = [pc EXCEPT ![t] = "idle"]
    /\ UNCHANGED <<readers, in_memory, file, fpos, seen, clean, nacq>>
    /\ UNCHANGED <<storeVars, libVars, scanVars, tuiVars>>

LockNext ==
    \E t \in Threads :
        \/ CallRead(t)
        \/ ReadSpin(t)
        \/ ReadGrant(t)
        \/ Observe(t)
        \/ DropKey(t)
        \/ CallWrite(t)
        \/ WriteSpinWriter(t)
        \/ WriteSpinReaders(t)
        \/ WriteGrant(t)
        \/ Mutate(t)
        \/ WriteBack(t)
        \/ ClearWriter(t)

LockStart == LockInit /\ StoreInit /\ LibIdle /\ ScanIdle

LockSpec == LockStart /\ [][LockNext]_vars

\* FairLockSpec: the same threads when the calls of read() count in the
\* budget of acquisitions too, so that finitely many are requested, and
\* every thread inside read(), write() or a drop, or holding a guard, goes
\* on running: its next step is eventually taken.

\* read(): entry, counted
CallReadCounted(t) ==
    /\ pc[t] = "idle"
    /\ nacq < MaxAcquire
    /\ nacq' = nacq + 1
    /\ pc' = [pc EXCEPT ![t] = "r_spin"]
    /\ UNCHANGED <<readers, writer, in_memory, file, fpos, seen, clean>>
    /\ UNCHANGED <<storeVars, libVars, scanVars, tuiVars>>

FairLockNext ==
    \E t \in Threads :
        \/ CallReadCounted(t)
        \/ ReadSpin(t)
        \/ ReadGrant(t)
        \/ Observe(t)
        \/ DropKey(t)
        \/ CallWrite(t)
        \/ WriteSpinWriter(t)
        \/ WriteSpinReaders(t)
        \/ WriteGrant(t)
        \/ Mutate(t)
        \/ WriteBack(t)
        \/ ClearWriter(t)

\* The steps of thread t that its own code takes next: the loops and the
\* grants of read() and write(), and the drops of the guards it holds.
Running(t) ==
    \/ ReadSpin(t)
    \/ ReadGrant(t)
    \/ DropKey(t)
    \/ WriteSpinWriter(t)
    \/ WriteSpinReaders(t)
    \/ WriteGrant(t)
    \/ WriteBack(t)
    \/ ClearWriter(t)

FairLockSpec ==
    /\ LockStart
    /\ [][FairLockNext]_vars
    /\ \A t \in Threads : WF_vars(Running(t))

----------------------------------------------------------------------------
\* The retrieval engine: nucleo_matcher's fuzzy_match under Config::DEFAULT
\* (ignore_case: the haystack is case-folded, the needle is taken as given).
\* An Option<u16> is <<>> for None and <<n>> for Some(n).

Lower(c) ==
    CASE c = "A" -> "a" [] c = "B" -> "b" [] c = "R" -> "r" [] OTHER -> c
FoldNothing(h) == h
Fold(h) == [i \in 1..Len(h) |-> Lower(h[i])]

OptMax(a, b) ==
    IF a = <<>> THEN b ELSE IF b = <<>> THEN a
    ELSE IF a[1] >= b[1] THEN a ELSE b

\* Score of the char matched at i when the previous match was at prev
\* (0: none): 16 a match, +8 at the start of the haystack, +4 when it
\* continues a run, -3 to open a gap and -1 for each further skipped char.
CharScore(i, prev) ==
    16 + (IF prev = 0 THEN (IF i = 1 THEN 8 ELSE 0)
          ELSE IF i = prev + 1 THEN 4
          ELSE 0 - (3 + (i - prev - 2)))

\* Best score of matching n[j..] inside h[i..], in order.
RECURSIVE Align(_, _, _, _, _)
Align(h, n, i, j, prev) ==
    IF j > Len(n) THEN <<0>>
    ELSE IF i > Len(h) THEN <<>>
    ELSE LET skip == Align(h, n, i + 1, j, prev)
             rest == IF h[i] = n[j] THEN Align(h, n, i + 1, j + 1, i) ELSE <<>>
             take == IF rest = <<>> THEN <<>>
                     ELSE <<rest[1] + CharScore(i, prev)>>
         IN  OptMax(take, skip)

FuzzyMatch(haystack, needle) ==
    IF Len(needle) > Len(haystack) THEN <<>>
    ELSE IF needle = <<>> THEN <<0>>
    ELSE Align(Fold(haystack), needle, 1, 1, 0)

\* Option::or
OptOr(a, b) == IF a # <<>> THEN a ELSE b

\* wiki.rs:151  name_score.or(data_score)
RankScoreNameOnly(r, q) == FuzzyMatch(r.name, q)
RankScore(r, q) == OptOr(FuzzyMatch(r.name, q), FuzzyMatch(r.data, q))

\* Vec<String>::contains
ContainsFirstOnly(tags, t) == Len(tags) > 0 /\ tags[1] = t
Contains(tags, t) == \E i \in 1..Len(tags) : tags[i] = t

\* The loop of recall over cells i..Len(cells); tagf is <<>> or <<tag>>.
RECURSIVE RecallLoopNoFilter(_, _, _, _, _)
RecallLoopNoFilter(cells, i, q, tagf, acc) ==
    IF i > Len(cells) THEN acc
    ELSE LET r == cells[i].val
             sc == RankScore(r, q) IN
         IF sc # <<>>
         THEN RecallLoopNoFilter(cells, i + 1, q, tagf,
                                 Append(acc, [score |-> sc[1], rec |-> r]))
         ELSE RecallLoopNoFilter(cells, i + 1, q, tagf, acc)

RECURSIVE RecallLoop(_, _, _, _, _)
RecallLoop(cells, i, q, tagf, acc) ==
    IF i > Len(cells) THEN acc
    ELSE LET r == cells[i].val IN
         IF tagf # <<>> /\ ~Contains(r.tags, tagf[1])
         THEN RecallLoop(cells, i + 1, q, tagf, acc)
         ELSE LET sc == RankScore(r, q) IN
              IF sc # <<>>
              THEN RecallLoop(cells, i + 1, q, tagf,
                              Append(acc, [score |-> sc[1], rec |-> r]))
              ELSE RecallLoop(cells, i + 1, q, tagf, acc)

\* slice::sort_by(|a, b| b.0.cmp(&a.0)): stable, descending by score.
RECURSIVE InsertDescUnstable(_, _)
InsertDescUnstable(sorted, e) ==
    IF sorted = <<>> THEN <<e>>
    ELSE IF Head(sorted).score > e.score
         THEN <<Head(sorted)>> \o InsertDescUnstable(Tail(sorted), e)
         ELSE <<e>> \o sorted

RECURSIVE InsertDesc(_, _)
InsertDesc(sorted, e) ==
    IF sorted = <<>> THEN <<e>>
    ELSE IF Head(sorted).score >= e.score
         THEN <<Head(sorted)>> \o InsertDesc(Tail(sorted), e)
         ELSE <<e>> \o sorted
RECURSIVE SortDesc(_, _)
SortDesc(xs, acc) ==
    IF xs = <<>> THEN acc ELSE SortDesc(Tail(xs), InsertDesc(acc, Head(xs)))

\* The loop of recall_by_tag over cells i..Len(cells).
RECURSIVE ByTagLoopInverted(_, _, _, _)
ByTagLoopInverted(cells, i, t, acc) ==
    IF i > Len(cells) THEN acc
    ELSE ByTagLoopInverted(cells, i + 1, t,
                           IF Contains(cells[i].val.tags, t)
                           THEN acc ELSE Append(acc, cells[i].val))

RECURSIVE ByTagLoop(_, _, _, _)
ByTagLoop(cells, i, t, acc) ==
    IF i > Len(cells) THEN acc
    ELSE ByTagLoop(cells, i + 1, t,
                   IF Contains(cells[i].val.tags, t)
                   THEN Append(acc, cells[i].val) ELSE acc)

----------------------------------------------------------------------------
\* Spec: the store.

\* A Locked<Information> of the store: its value, its counters, the file it
\* was opened on and the cursor of its handle.
Cell(v, path, pos) ==
    [val |-> v, path |-> path, pos |-> pos, readers |-> 0, writer |-> FALSE]

\* wiki.rs:110-115  the record commit builds
NewRecordNoData(id, fact, tags) == Information(id, tags, fact, <<>>)
NewRecord(id, fact, tags) == Information(id, tags, fact, fact)

\* wiki.rs:120  self.info.push(..)
PushReplacing(v, c) == IF v = <<>> THEN <<c>> ELSE SubSeq(v, 1, Len(v) - 1) \o <<c>>
Push(v, c) == Append(v, c)

Op(op, ok, id, text, tags) ==
    [op |-> op, ok |-> ok, id |-> id, text |-> text, tags |-> tags]

\* std::fs::create_dir_all: the directory exists afterwards unless the call
\* fails.
CreateDirAllNoop(exists, made) == exists
CreateDirAll(exists, made) == exists \/ made

\* Locked::new as a Result: <<>> is Err, <<cell>> is Ok(cell).  Err when the
\* file cannot be created or opened, and when the first write fails.
LockedNewDespiteError(path, data, outcome) ==
    <<Cell(data, path, Len(Serialize(data)))>>
LockedNew(path, data, outcome) ==
    IF outcome \in {"open", "write"}
    THEN <<>>
    ELSE <<Cell(data, path, Len(Serialize(data)))>>

\* Wiki::commit. mkdir: create_dir_all fails; open: OpenOptions::open fails;
\* write: the file was created and truncated but write_all fails.
Commit(fact, tags, outcome) ==
    /\ phase = "ready"
    /\ nops < MaxOps
    /\ nops' = nops + 1
    /\ LET id == nextId
           rec == NewRecord(id, fact, tags)
           new == IF outcome = "mkdir" THEN <<>> ELSE LockedNew(id, rec, outcome)
       IN  /\ nextId' = nextId + 1
           /\ dirExists' = CreateDirAll(dirExists, outcome # "mkdir")
           /\ disk' = IF outcome = "ok" THEN [disk EXCEPT ![id] = Serialize(rec)]
                      ELSE IF outcome = "write" THEN [disk EXCEPT ![id] = <<>>]
                      ELSE disk
           /\ info' = IF new # <<>> THEN Push(info, new[1]) ELSE info
           /\ created' = IF new # <<>> THEN created \cup {rec} ELSE created
           /\ nCommitted' = IF new # <<>> THEN nCommitted + 1 ELSE nCommitted
           /\ last' = Op("commit", new # <<>>, id, fact, tags)
           /\ fault' = (outcome # "ok")
    /\ answer' = <<>> /\ scored' = <<>>
    /\ UNCHANGED <<phase, pending, results, nLoaded, edited, openFailed>>
    /\ UNCHANGED <<lockVars, libVars, scanVars, tuiVars>>

\* Locked::write, an assignment through DerefMut, and Drop for WritableKey,
\* on cell i of the store by its owning thread: to_string_pretty of the new
\* value goes to the handle at its cursor when wrote, nowhere otherwise.
AcquireWrite(c) == [c EXCEPT !.writer = TRUE]

ReleaseRollback(c, v, wrote) ==
    [c EXCEPT !.val = IF wrote THEN v ELSE c.val,
              !.pos = IF wrote THEN c.pos + Len(Serialize(v)) ELSE c.pos,
              !.writer = FALSE]

Release(c, v, wrote) ==
    [c EXCEPT !.val = v,
              !.pos = IF wrote THEN c.pos + Len(Serialize(v)) ELSE c.pos,
              !.writer = FALSE]

Edit(i, v, wrote, op) ==
    /\ phase = "ready"
    /\ nops < MaxOps
    /\ info[i].readers = 0 /\ ~info[i].writer
    /\ info' = [info EXCEPT ![i] = Release(AcquireWrite(info[i]), v, wrote)]
    /\ disk' = IF wrote /\ disk[info[i].path] # NoFile
               THEN [disk EXCEPT ![info[i].path] =
                        WriteAt(disk[info[i].path], info[i].pos, Serialize(v))]
               ELSE disk
    /\ edited' = edited \cup {info[i].val.id}
    /\ nops' = nops + 1
    /\ last' = Op(op, wrote, info[i].val.id, v.data, <<>>)
    /\ fault' = ~wrote
    /\ answer' = <<>> /\ scored' = <<>>
    /\ UNCHANGED <<dirExists, phase, pending, results, nextId, nLoaded,
                   nCommitted, created, openFailed>>
    /\ UNCHANGED <<lockVars, libVars, scanVars, tuiVars>>

\* w.data = self.edit_buffer.clone() through DerefMut of the WritableKey
InlineEditedRenumbered(rec, buf) ==
    [rec EXCEPT !.data = buf, !.id = (@ % MaxOps) + 1]
InlineEdited(rec, buf) == [rec EXCEPT !.data = buf]

\* App::save_inline_edit: w.data = edit_buffer
SaveInlineEdit ==
    \E i \in 1..Len(info), buf \in Texts, wrote \in BOOLEAN :
        Edit(i, InlineEdited(info[i].val, buf), wrote, "edit")

\* The assignments of the external editor's write-back: name unless the
\* new title is blank, tags when the front matter had some, data always
EditorEdited(rec, new) ==
    [rec EXCEPT !.name = IF new.title # <<>> THEN new.title ELSE @,
                !.tags = IF new.ntags # <<>> THEN new.ntags[1] ELSE @,
                !.data = new.rest]

\* run_app, the external editor's write-back
EditorWriteBack ==
    \E i \in 1..Len(info), wrote \in BOOLEAN,
       new \in { [title |-> <<>>, ntags |-> <<>>, rest |-> <<"a", "b">>],
                 [title |-> <<"a", "b">>, ntags |-> << <<"p">> >>, rest |-> <<>>] } :
        Edit(i, EditorEdited(info[i].val, new), wrote, "editor")

\* Locked::read and Drop for Key on a cell of the store by its owning thread
\* (no WritableKey is live there, so read() does not spin).
AcquireRead(c) == [c EXCEPT !.readers = @ + 1]
DropReadLeaked(c) == c
DropRead(c) == [c EXCEPT !.readers = @ - 1]

\* The cells after a pass that takes and drops a Key on each in turn.
Visited(cells) == [i \in 1..Len(cells) |-> DropRead(AcquireRead(cells[i]))]

\* Wiki::recall
Recall(q, tagf) ==
    /\ phase = "ready"
    /\ \A i \in 1..Len(info) : ~info[i].writer
    /\ info' = Visited(info)
    /\ fault' = FALSE
    /\ scored' = SortDesc(RecallLoop(info, 1, q, tagf, <<>>), <<>>)
    /\ answer' = [k \in 1..Len(scored') |-> scored'[k].rec]
    /\ last' = Op("recall", TRUE, 0, q, tagf)
    /\ UNCHANGED <<disk, dirExists, phase, pending, results, nextId,
                   nLoaded, nCommitted, created, edited, nops,
                   openFailed>>
    /\ UNCHANGED <<lockVars, libVars, scanVars, tuiVars>>

\* Wiki::recall_by_tag
RecallByTag(t) ==
    /\ phase = "ready"
    /\ \A i \in 1..Len(info) : ~info[i].writer
    /\ info' = Visited(info)
    /\ fault' = FALSE
    /\ answer' = ByTagLoop(info, 1, t, <<>>)
    /\ scored' = <<>>
    /\ last' = Op("recall_by_tag", TRUE, 0, <<>>, <<t>>)
    /\ UNCHANGED <<disk, dirExists, phase, pending, results, nextId,
                   nLoaded, nCommitted, created, edited, nops,
                   openFailed>>
    /\ UNCHANGED <<lockVars, libVars, scanVars, tuiVars>>

\* Wiki::load_or_create up to the spawn of the loader threads (the directory
\* exists and read_dir lists it), all of it with the default empty collection
\* (read_dir fails), or all of it through Wiki::new (no directory).
LoadStart ==
    /\ phase = "ready"
    /\ nops < MaxOps
    /\ nops' = nops + 1
    /\ IF dirExists
       THEN \E listed \in BOOLEAN :
              IF listed
              THEN /\ phase' = "loading"
                   /\ pending' = { f \in Ids : disk[f] # NoFile }
                   /\ results' = <<>>
                   /\ openFailed' = {}
                   /\ last' = Op("spawn", TRUE, 0, <<>>, <<>>)
                   /\ fault' = FALSE
                   /\ UNCHANGED <<dirExists, info, nLoaded, nCommitted>>
              ELSE /\ info' = <<>>
                   /\ nLoaded' = 0
                   /\ nCommitted' = 0
                   /\ last' = Op("load", TRUE, 0, <<>>, <<>>)
                   /\ fault' = TRUE
                   /\ UNCHANGED <<dirExists, phase, pending, results,
                                  openFailed>>
       ELSE /\ \E made \in BOOLEAN :
                 /\ dirExists' = CreateDirAll(dirExists, made)
                 /\ fault' = (~dirExists /\ ~made)
            /\ info' = <<>>
            /\ nLoaded' = 0
            /\ nCommitted' = 0
            /\ last' = Op("new", TRUE, 0, <<>>, <<>>)
            /\ UNCHANGED <<phase, pending, results, openFailed>>
    /\ answer' = <<>> /\ scored' = <<>>
    /\ UNCHANGED <<disk, nextId, created, edited>>
    /\ UNCHANGED <<lockVars, libVars, scanVars, tuiVars>>

\* Locked::load: the result of from_reader on the file, the cursor left at
\* the end of what was read.
Loaded(f) == Cell(Deserialize(disk[f]), f, Len(disk[f]))

\* Locked::load as a Result: <<>> is Err, <<cell>> is Ok(cell).  The open
\* fails on a missing file or on an I/O error; from_reader fails on anything
\* but one value.
LockedLoad(f, opened) ==
    IF disk[f] = NoFile \/ ~opened \/ ~WellFormed(disk[f])
    THEN <<>>
    ELSE <<Loaded(f)>>

\* The same on the file f of any directory, given its content.
LockedLoadFrom(content, f, opened) ==
    IF content = NoFile \/ ~opened \/ ~WellFormed(content)
    THEN <<>>
    ELSE <<Cell(Deserialize(content), f, Len(content))>>

\* The loader's  if let Ok(locked) = .. { results.lock().unwrap().push(locked) }
LoaderPushRacy(res, r) ==
    IF r = <<>> \/ (res # <<>> /\ res[Len(res)].path > r[1].path)
    THEN res ELSE Push(res, r[1])
LoaderPushOrReset(res, r) == IF r = <<>> THEN <<>> ELSE Push(res, r[1])
LoaderPush(res, r) == IF r = <<>> THEN res ELSE Push(res, r[1])

\* One loader thread: Locked::load and, if Ok, the push under the mutex.
LoaderRun(f) ==
    /\ phase = "loading"
    /\ f \in pending
    /\ pending' = pending \ {f}
    /\ \E opened \in BOOLEAN :
         /\ results' = LoaderPush(results, LockedLoad(f, opened))
         /\ openFailed' = IF opened THEN openFailed ELSE openFailed \cup {f}
    /\ UNCHANGED <<disk, dirExists, info, phase, nextId, last, answer, scored,
                   nLoaded, nCommitted, created, edited, nops, fault>>
    /\ UNCHANGED <<lockVars, libVars, scanVars, tuiVars>>

\* for handle in handles { handle.join().ok(); }  has returned.
AllJoinedNoWait(left) == TRUE
AllJoined(left) == left = {}

\* Wiki { name, info, path }: the loaded cells are the whole collection.
LoadedWikiAppended(old, res) == old \o res
LoadedWiki(old, res) == res

\* load_or_create after the last join: the Wiki is returned and replaces the
\* one in use.
LoadFinish ==
    /\ phase = "loading"
    /\ AllJoined(pending)
    /\ phase' = "ready"
    /\ info' = LoadedWiki(info, results)
    /\ fault' = FALSE
    /\ results' = <<>>
    /\ nLoaded' = Len(results)
    /\ nCommitted' = 0
    /\ last' = Op("load", TRUE, 0, <<>>, <<>>)
    /\ UNCHANGED <<disk, dirExists, pending, nextId, answer, scored, created,
                   edited, nops, openFailed>>
    /\ UNCHANGED <<lockVars, libVars, scanVars, tuiVars>>

Init == LockInit /\ StoreInit /\ LibIdle /\ ScanIdle

Next ==
    \/ \E a \in Facts, outcome \in {"ok", "mkdir", "open", "write"} :
          Commit(a.fact, a.tags, outcome)
    \/ SaveInlineEdit
    \/ EditorWriteBack
    \/ \E q \in Queries, tagf \in {<<>>, <<"p">>} : Recall(q, tagf)
    \/ \E t \in Tags : RecallByTag(t)
    \/ LoadStart
    \/ \E f \in Ids : LoaderRun(f)
    \/ LoadFinish

Spec == Init /\ [][Next]_vars

\* The library calls of the usage example: commit("Remember to call Alice",
\* ["personal"]), recall("alice", None), recall_by_tag("personal") and
\* recall_by_tag("work"), in any order and number on a store that starts
\* empty; a commit may meet any I/O outcome.
ExFact ==
    <<"R", "e", "m", "e", "m", "b", "e", "r", " ", "t", "o", " ", "c",
      "a", "l", "l", " ", "A", "l", "i", "c", "e">>
ExTags == <<"personal">>
ExQuery == <<"a", "l", "i", "c", "e">>

ExampleNext ==
    \/ \E outcome \in {"ok", "mkdir", "open", "write"} :
          Commit(ExFact, ExTags, outcome)
    \/ Recall(ExQuery, <<>>)
    \/ \E t \in {"personal", "work"} : RecallByTag(t)

ExampleSpec == Init /\ [][ExampleNext]_vars

----------------------------------------------------------------------------
\* LibSpec: the library functions of lib.rs, each thread with its own
\* CURRENT_WIKI and USE_GLOBAL.  A Wiki is [name, path, info]; the threads
\* share the file system.  load_or_create is one step here: its loaders, and
\* the files one of them cannot open, are the subject of Spec.

\* The variables of Spec that the library calls leave alone.
libRest == <<disk, dirExists, info, phase, pending, results, scored, nLoaded,
             nCommitted, created, edited, openFailed>>

\* Wiki::get_wiki_path
GetWikiPathAlwaysLocal(name, use_global, dd, localExists, rootExists) ==
    IF localExists \/ rootExists THEN LocalPath(name) ELSE GlobalPath(name, dd)

GetWikiPath(name, use_global, dd, localExists, rootExists) ==
    IF use_global
    THEN GlobalPath(name, dd)
    ELSE IF localExists \/ rootExists
         THEN LocalPath(name)
         ELSE GlobalPath(name, dd)

\* The path get_wiki_path resolves name to in the current state, for thread t.
Resolve(t, name) ==
    GetWikiPath(name, useGlobal[t], dataDir, fs[LocalPath(name)].exists, localRoot)

\* The orders in which the loaders of the files in S can push.
Orders(S) ==
    { o \in [1..Cardinality(S) -> S] :
          \A i, j \in 1..Cardinality(S) : i # j => o[i] # o[j] }

\* The files of a directory that load as a cell when those in failed cannot
\* be opened.
Loadable(files, failed) ==
    { f \in Ids : LockedLoadFrom(files[f], f, f \notin failed) # <<>> }

\* lib.rs set_use_global
SetUseGlobal(t, b) ==
    /\ useGlobal[t] # b
    /\ useGlobal' = [useGlobal EXCEPT ![t] = b]
    /\ caller' = t
    /\ last' = Op("set_use_global", TRUE, 0, <<>>, <<>>)
    /\ fault' = FALSE
    /\ answer' = <<>>
    /\ UNCHANGED <<current, fs, localRoot, dataDir, nextId, nops>>
    /\ UNCHANGED <<lockVars, libRest, scanVars, tuiVars>>

\* CURRENT_WIKI.with(|w| *w.borrow_mut() = Some(wiki)) on thread t
InstallNothing(cur, t, w) == cur
InstallForEveryThread(cur, t, w) == [u \in LibThreads |-> <<w>>]
Install(cur, t, w) == [cur EXCEPT ![t] = <<w>>]

\* lib.rs switch: Wiki::load_or_create on the resolved path, installed as
\* the thread's CURRENT_WIKI; always Ok(()).
Switch(t, name) ==
    /\ nops < MaxOps
    /\ nops' = nops + 1
    /\ caller' = t
    /\ last' = Op("switch", TRUE, 0, <<name>>, <<>>)
    /\ answer' = <<>>
    /\ LET p == Resolve(t, name) IN
         IF fs[p].exists
         THEN /\ \E listed \in BOOLEAN :
                   /\ fault' = ~listed
                   /\ \E o \in Orders(IF listed THEN Loadable(fs[p].files, {})
                                                 ELSE {}) :
                        current' = Install(current, t,
                            [name |-> name, path |-> p,
                             info |-> [k \in 1..Len(o) |->
                                 LockedLoadFrom(fs[p].files[o[k]], o[k], TRUE)[1]]])
              /\ fs' = fs
         ELSE \E made \in BOOLEAN :
                   /\ fs' = [fs EXCEPT ![p].exists = CreateDirAll(FALSE, made)]
                   /\ fault' = ~made
                   /\ current' = Install(current, t,
                          [name |-> name, path |-> p, info |-> <<>>])
    /\ UNCHANGED <<useGlobal, localRoot, dataDir, nextId>>
    /\ UNCHANGED <<lockVars, libRest, scanVars, tuiVars>>

\* The Err("No wiki context selected. Use switch() first.") arm of commit,
\* recall, recall_by_tag and book.
NoContext(t, op, text, tags) ==
    /\ current[t] = <<>>
    /\ caller' = t
    /\ last' = Op(op, FALSE, 0, text, tags)
    /\ fault' = FALSE
    /\ answer' = <<>>
    /\ UNCHANGED <<current, useGlobal, fs, localRoot, dataDir, nextId, nops>>
    /\ UNCHANGED <<lockVars, libRest, scanVars, tuiVars>>

\* lib.rs commit with a context: Wiki::commit on the thread's Wiki.
LibCommit(t, fact, tags, outcome) ==
    /\ current[t] # <<>>
    /\ nops < MaxOps
    /\ nops' = nops + 1
    /\ caller' = t
    /\ answer' = <<>>
    /\ LET w == current[t][1]
           id == nextId
           rec == NewRecord(id, fact, tags)
           new == IF outcome = "mkdir" THEN <<>> ELSE LockedNew(id, rec, outcome)
       IN  /\ nextId' = nextId + 1
           /\ fs' = [fs EXCEPT
                 ![w.path].exists = CreateDirAll(@, outcome # "mkdir"),
                 ![w.path].files = IF outcome = "ok" THEN [@ EXCEPT ![id] = Serialize(rec)]
                                   ELSE IF outcome = "write" THEN [@ EXCEPT ![id] = <<>>]
                                   ELSE @]
           /\ current' = [current EXCEPT ![t] =
                  << [w EXCEPT !.info = IF new # <<>> THEN Push(@, new[1]) ELSE @] >>]
           /\ last' = Op("commit", new # <<>>, id, fact, tags)
           /\ fault' = (outcome # "ok")
    /\ UNCHANGED <<useGlobal, localRoot, dataDir>>
    /\ UNCHANGED <<lockVars, libRest, scanVars, tuiVars>>

\* lib.rs recall with a context: Ok(wiki.recall(query, tag_filter))
LibRecall(t, q, tagf) ==
    /\ current[t] # <<>>
    /\ caller' = t
    /\ LET w == current[t][1]
           sc == SortDesc(RecallLoop(w.info, 1, q, tagf, <<>>), <<>>)
       IN  /\ answer' = [k \in 1..Len(sc) |-> sc[k].rec]
           /\ current' = [current EXCEPT ![t] = << [w EXCEPT !.info = Visited(@)] >>]
    /\ last' = Op("recall", TRUE, 0, q, tagf)
    /\ fault' = FALSE
    /\ UNCHANGED <<useGlobal, fs, localRoot, dataDir, nextId, nops>>
    /\ UNCHANGED <<lockVars, libRest, scanVars, tuiVars>>

\* lib.rs recall_by_tag with a context: Ok(wiki.recall_by_tag(tag))
LibRecallByTag(t, tag) ==
    /\ current[t] # <<>>
    /\ caller' = t
    /\ LET w == current[t][1]
       IN  /\ answer' = ByTagLoop(w.info, 1, tag, <<>>)
           /\ current' = [current EXCEPT ![t] = << [w EXCEPT !.info = Visited(@)] >>]
    /\ last' = Op("recall_by_tag", TRUE, 0, <<>>, <<tag>>)
    /\ fault' = FALSE
    /\ UNCHANGED <<useGlobal, fs, localRoot, dataDir, nextId, nops>>
    /\ UNCHANGED <<lockVars, libRest, scanVars, tuiVars>>

\* lib.rs book with a context: Wiki::generate_book reads every cell through
\* a Key and writes outside the store directory; it is Err when a file
\* operation or the mdbook run fails.
LibBook(t) ==
    /\ current[t] # <<>>
    /\ caller' = t
    /\ current' = [current EXCEPT ![t] = << [@[1] EXCEPT !.info = Visited(@)] >>]
    /\ \E built \in BOOLEAN :
         /\ last' = Op("book", built, 0, <<>>, <<>>)
         /\ fault' = ~built
    /\ answer' = <<>>
    /\ UNCHANGED <<useGlobal, fs, localRoot, dataDir, nextId, nops>>
    /\ UNCHANGED <<lockVars, libRest, scanVars, tuiVars>>

LibInit ==
    /\ LockInit /\ StoreInit /\ dirExists = FALSE
    /\ ScanIdle
    /\ current = [t \in LibThreads |-> <<>>]
    /\ useGlobal = [t \in LibThreads |-> FALSE]
    /\ caller = "A"
    /\ fs = [p \in StorePaths |-> NoDir]
    /\ localRoot \in BOOLEAN
    /\ dataDir \in DataDirs

LibNext ==
    \E t \in LibThreads :
        \/ \E b \in BOOLEAN : SetUseGlobal(t, b)
        \/ \E name \in Names : Switch(t, name)
        \/ NoContext(t, "commit", <<"a", "b">>, <<"p">>)
        \/ NoContext(t, "recall", <<"a", "b">>, <<>>)
        \/ NoContext(t, "recall_by_tag", <<>>, <<"p">>)
        \/ NoContext(t, "book", <<>>, <<>>)
        \/ \E outcome \in {"ok", "open"} :
              LibCommit(t, <<"a", "b">>, <<"p">>, outcome)
        \/ LibRecall(t, <<"a", "b">>, <<>>)
        \/ LibRecallByTag(t, "p")
        \/ LibBook(t)

LibSpec == LibInit /\ [][LibNext]_vars

----------------------------------------------------------------------------
\* ScanSpec: Wiki::recall and Wiki::recall_by_tag on a store that commits
\* have filled, one step for each Key the loop takes and one for the rest of
\* the iteration, at whose end the Key is dropped.

\* The stores after up to MaxOps - 1 successful commits.
RECURSIVE Committed(_)
Committed(fs_) ==
    [k \in 1..Len(fs_) |->
        LET rec == NewRecord(k, fs_[k].fact, fs_[k].tags)
        IN  Cell(rec, k, Len(Serialize(rec)))]
ScanStores ==
    UNION { { Committed(c) : c \in [1..n -> Facts] } : n \in 0..(MaxOps - 1) }

ScanInit ==
    /\ LockInit /\ LibIdle /\ ScanIdle
    /\ info \in ScanStores
    /\ disk = [i \in Ids |-> IF i <= Len(info) THEN Serialize(info[i].val) ELSE NoFile]
    /\ dirExists = TRUE
    /\ phase = "ready" /\ pending = {} /\ results = <<>>
    /\ nextId = Len(info) + 1
    /\ last = [op |-> "new", ok |-> TRUE, id |-> 0, text |-> <<>>, tags |-> <<>>]
    /\ answer = <<>> /\ scored = <<>>
    /\ nLoaded = 0 /\ nCommitted = Len(info)
    /\ created = { info[i].val : i \in 1..Len(info) }
    /\ edited = {} /\ nops = Len(info) /\ fault = FALSE /\ openFailed = {}

scanRest == <<disk, dirExists, phase, pending, results, nextId, nLoaded,
              nCommitted, created, edited, nops, fault, openFailed>>

\* wiki.rs:128-129 / 171: the call, with its empty result vector
ScanStart(op, q, tagf) ==
    /\ scan.op = "none" /\ phase = "ready"
    /\ scan' = [op |-> op, i |-> 1, q |-> q, tagf |-> tagf, acc |-> <<>>,
                holding |-> FALSE]
    /\ last' = Op("call", TRUE, 0, q, tagf)
    /\ answer' = <<>> /\ scored' = <<>>
    /\ UNCHANGED <<info, scanRest>>
    /\ UNCHANGED <<lockVars, libVars, tuiVars>>

\* wiki.rs:132 / 174: let info_key = locked_info.read()
ScanAcquire ==
    /\ scan.op # "none" /\ ~scan.holding
    /\ scan.i <= Len(info)
    /\ ~info[scan.i].writer
    /\ info' = [info EXCEPT ![scan.i] = AcquireRead(@)]
    /\ scan' = [scan EXCEPT !.holding = TRUE]
    /\ UNCHANGED <<last, answer, scored, scanRest>>
    /\ UNCHANGED <<lockVars, libVars, tuiVars>>

\* wiki.rs:134-162 / 176-184: the rest of the iteration on the cell the Key
\* is on (the tag filter and its continue, the match, the push), and the drop
\* of info_key as its scope ends.
ScanRelease ==
    /\ scan.op # "none" /\ scan.holding
    /\ scan' = [scan EXCEPT
          !.acc = IF scan.op = "recall"
                  THEN RecallLoop(<<info[scan.i]>>, 1, scan.q, scan.tagf, @)
                  ELSE ByTagLoop(<<info[scan.i]>>, 1, scan.tagf[1], @),
          !.i = @ + 1,
          !.holding = FALSE]
    /\ info' = [info EXCEPT ![scan.i] = DropRead(@)]
    /\ UNCHANGED <<last, answer, scored, scanRest>>
    /\ UNCHANGED <<lockVars, libVars, tuiVars>>

\* wiki.rs:164-166 / 186: after the loop, the sort (recall) and the return
ScanReturn ==
    /\ scan.op # "none" /\ ~scan.holding
    /\ scan.i > Len(info)
    /\ IF scan.op = "recall"
       THEN /\ scored' = SortDesc(scan.acc, <<>>)
            /\ answer' = [k \in 1..Len(scored') |-> scored'[k].rec]
       ELSE /\ scored' = <<>>
            /\ answer' = scan.acc
    /\ last' = Op(scan.op, TRUE, 0, scan.q, scan.tagf)
    /\ scan' = [op |-> "none", i |-> 0, q |-> <<>>, tagf |-> <<>>, acc |-> <<>>,
                holding |-> FALSE]
    /\ UNCHANGED <<info, scanRest>>
    /\ UNCHANGED <<lockVars, libVars, tuiVars>>

ScanNext ==
    \/ \E q \in Queries, tagf \in {<<>>, <<"p">>} : ScanStart("recall", q, tagf)
    \/ \E t \in Tags : ScanStart("recall_by_tag", <<>>, <<t>>)
    \/ ScanAcquire
    \/ ScanRelease
    \/ ScanReturn

ScanSpec == ScanInit /\ [][ScanNext]_vars

----------------------------------------------------------------------------
\* TuiSpec: the terminal interface, run_app's loop on an App: a draw, then
\* one event and its handler.  status_msg and status_timer, which only ui
\* reads, and the command history with its Up and Down keys are left out.

\* A key press: KeyCode::Char(ch), with or without Ctrl, or a named key.
Key(code, ch, ctrl) == [code |-> code, ch |-> ch, ctrl |-> ctrl]
Char(c) == Key("Char", c, FALSE)
Named(code) == Key(code, "", FALSE)

\* The command lines typed in command mode, of which any prefix may be
\* entered.
CommandLines ==
    { <<":", "e", "d", "i", "t">>,
      <<":", "q">>,
      <<":", "n", " ", "a">>,
      <<":", "w", "i", "k", "i", " ", "n">>,
      <<":", "s", " ", "x">>,
      <<":", "s", " ", "r", "e", ":", "b">>,
      <<":", "?">> }

IsPrefix(p, s) == Len(p) <= Len(s) /\ SubSeq(s, 1, Len(p)) = p
Typable(s) == \E line \in CommandLines : IsPrefix(s, line)

\* The characters typed in the inline editor.
EditChars == { "a" }

Chars ==
    UNION { { line[i] : i \in 1..Len(line) } : line \in CommandLines }
        \cup { "q", "j", "k", "i", "e", "?", "h" } \cup EditChars

Keys ==
    { Char(c) : c \in Chars } \cup { Key("Char", "s", TRUE) }
        \cup { Named(code) : code \in {"Enter", "Esc", "Backspace", "Up",
                                         "Down", "F1", "Tab"} }

\* str::trim_start_matches(c)
RECURSIVE TrimStartMatches(_, _)
TrimStartMatches(s, c) ==
    IF s # <<>> /\ Head(s) = c THEN TrimStartMatches(Tail(s), c) ELSE s

\* str::split_whitespace: the words of s, cur being the word under way
RECURSIVE Words(_, _, _)
Words(s, cur, acc) ==
    IF s = <<>> THEN (IF cur = <<>> THEN acc ELSE Append(acc, cur))
    ELSE IF Head(s) = " "
         THEN Words(Tail(s), <<>>, IF cur = <<>> THEN acc ELSE Append(acc, cur))
         ELSE Words(Tail(s), Append(cur, Head(s)), acc)
SplitWhitespace(s) == Words(s, <<>>, <<>>)

\* [&str]::join(" ")
RECURSIVE JoinSpace(_)
JoinSpace(ws) ==
    IF ws = <<>> THEN <<>>
    ELSE IF Len(ws) = 1 THEN ws[1]
    ELSE ws[1] \o <<" ">> \o JoinSpace(Tail(ws))

\* data.lines().next().unwrap_or("")
RECURSIVE FirstLine(_)
FirstLine(s) ==
    IF s = <<>> \/ Head(s) = "\n" THEN <<>> ELSE <<Head(s)>> \o FirstLine(Tail(s))

\* Regex::new on a pattern of literal characters, <<>> for Err (an
\* unclosed group), and Regex::is_match, which looks for the literal
\* anywhere in the text.
RegexNew(raw) ==
    IF \E i \in 1..Len(raw) : raw[i] = "(" THEN <<>> ELSE <<raw>>
IsMatch(re, text) ==
    \E i \in 0..(Len(text) - Len(re)) : SubSeq(text, i + 1, i + Len(re)) = re

\* String::pop
Pop(s) == IF s = <<>> THEN s ELSE SubSeq(s, 1, Len(s) - 1)

\* One row of App.items: name, preview, tags, id (the path is that of id).
Item(r) ==
    [name |-> r.name, preview |-> FirstLine(r.data), tags |-> r.tags, id |-> r.id]

\* The fuzzy branch of refresh_items: the rows the pattern matches, by
\* descending score.
RECURSIVE FuzzyRows(_, _, _)
FuzzyRows(rows, needle, acc) ==
    IF rows = <<>> THEN acc
    ELSE LET sc == OptOr(FuzzyMatch(Head(rows).name, needle),
                         FuzzyMatch(Head(rows).preview, needle))
         IN  FuzzyRows(Tail(rows), needle,
                       IF sc # <<>>
                       THEN Append(acc, [score |-> sc[1], rec |-> Head(rows)])
                       ELSE acc)

\* App::refresh_items: the rows of the store's cells, kept by the filter.
RefreshItems(cells, filter, filter_regex) ==
    LET all == [i \in 1..Len(cells) |-> Item(cells[i].val)] IN
    IF filter = <<>> THEN all
    ELSE IF filter_regex # <<>>
    THEN SelectSeq(all, LAMBDA it :
             \/ IsMatch(filter_regex[1], it.name)
             \/ IsMatch(filter_regex[1], it.preview)
             \/ \E k \in 1..Len(it.tags) : IsMatch(filter_regex[1], <<it.tags[k]>>))
    ELSE LET sc == SortDesc(FuzzyRows(all, filter[1], <<>>), <<>>)
         IN  [k \in 1..Len(sc) |-> sc[k].rec]

\* The App and what its handlers reach of the store, as one value.
World(a, cells, files, dir, id, n) ==
    [app |-> a, info |-> cells, disk |-> files, dirExists |-> dir,
     nextId |-> id, nops |-> n]

\* self.refresh_items() in a handler: every cell is read through a Key.
refresh_items(w) ==
    [w EXCEPT !.info = Visited(@),
              !.app.items = RefreshItems(w.info, w.app.filter, w.app.filter_regex)]

\* App::new
AppNew(cells) ==
    LET rows == RefreshItems(cells, <<>>, <<>>) IN
    [items |-> rows,
     selected |-> IF rows # <<>> THEN <<0>> ELSE <<>>,
     input_mode |-> "Normal", input |-> <<>>, should_quit |-> FALSE,
     filter |-> <<>>, filter_regex |-> <<>>, show_help |-> FALSE,
     edit_buffer |-> <<>>, editing_id |-> <<>>]

\* App::next
next(a) ==
    IF a.items = <<>> THEN a
    ELSE [a EXCEPT !.selected =
             IF a.selected # <<>>
             THEN (IF a.selected[1] >= Len(a.items) - 1 THEN <<0>>
                   ELSE <<a.selected[1] + 1>>)
             ELSE <<0>>]

\* App::previous
previous(a) ==
    IF a.items = <<>> THEN a
    ELSE [a EXCEPT !.selected =
             IF a.selected # <<>>
             THEN (IF a.selected[1] = 0 THEN <<Len(a.items) - 1>>
                   ELSE <<a.selected[1] - 1>>)
             ELSE <<0>>]

\* App::find_locked_index_by_id: the first cell with the id, 0 for None
find_locked_index_by_id(cells, id) ==
    IF \E i \in 1..Len(cells) : cells[i].val.id = id
    THEN CHOOSE i \in 1..Len(cells) :
             /\ cells[i].val.id = id
             /\ \A j \in 1..(i - 1) : cells[j].val.id # id
    ELSE 0

\* The row the selection is on, <<>> when there is none or it is beyond
\* the rows (sel < self.items.len()).
SelectedRow(a) ==
    IF a.selected # <<>> /\ a.selected[1] < Len(a.items)
    THEN <<a.items[a.selected[1] + 1]>> ELSE <<>>

\* App::start_inline_edit
start_inline_edit(w) ==
    LET row == SelectedRow(w.app)
        li == IF row = <<>> THEN 0 ELSE find_locked_index_by_id(w.info, row[1].id)
    IN  IF li = 0 THEN w
        ELSE [w EXCEPT !.app.edit_buffer = w.info[li].val.data,
                       !.app.editing_id = <<row[1].id>>,
                       !.app.input_mode = "Edit"]

\* The write of a cell's value through a WritableKey and its drop: the
\* file gets the serialization at the cell's cursor when write_all succeeds.
WriteCell(w, li, v, wrote) ==
    [w EXCEPT !.info[li] = Release(AcquireWrite(@), v, wrote),
              !.disk = IF wrote /\ w.disk[w.info[li].path] # NoFile
                       THEN [@ EXCEPT ![w.info[li].path] =
                                WriteAt(@, w.info[li].pos, Serialize(v))]
                       ELSE @]

\* App::save_inline_edit
save_inline_edit(w, wrote) ==
    LET li == IF w.app.editing_id = <<>> THEN 0
              ELSE find_locked_index_by_id(w.info, w.app.editing_id[1])
    IN  IF li = 0 THEN w
        ELSE LET saved == refresh_items(
                     WriteCell(w, li, InlineEdited(w.info[li].val, w.app.edit_buffer),
                               wrote))
             IN  [saved EXCEPT !.app.input_mode = "Normal",
                               !.app.editing_id = <<>>]

\* App::cancel_inline_edit
cancel_inline_edit(w) ==
    [w EXCEPT !.app.editing_id = <<>>,
              !.app.edit_buffer = <<>>,
              !.app.input_mode = "Normal"]

\* App::switch_wiki: the store that load_or_create returned replaces the
\* one in use, and row 0 is selected.
switch_wiki(w, loaded) ==
    LET sw == refresh_items([w EXCEPT !.info = loaded.info,
                                      !.disk = loaded.disk,
                                      !.dirExists = loaded.dirExists])
    IN  [sw EXCEPT !.app.selected = <<0>>]

\* App::create_entry: Locked::new on a record with the name, no tag and no
\* data; the cell is pushed and the rows refreshed when it is Ok.
create_entry(w, name, outcome) ==
    LET id == w.nextId
        rec == Information(id, <<>>, name, <<>>)
        new == LockedNew(id, rec, outcome)
        made == [w EXCEPT
                   !.nextId = @ + 1,
                   !.disk = IF outcome = "ok" THEN [@ EXCEPT ![id] = Serialize(rec)]
                            ELSE IF outcome = "write" THEN [@ EXCEPT ![id] = <<>>]
                            ELSE @]
    IN  IF new # <<>>
        THEN refresh_items([made EXCEPT !.info = Push(@, new[1])])
        ELSE made

\* The "s" | "search" arm of process_command
search(w, parts) ==
    IF Len(parts) > 1
    THEN LET pat == JoinSpace(Tail(parts)) IN
         IF IsPrefix(<<"r", "e", ":">>, pat)
         THEN LET raw == SubSeq(pat, 4, Len(pat))
                  r == RegexNew(raw)
              IN  IF r # <<>>
                  THEN refresh_items([w EXCEPT !.app.filter = <<raw>>,
                                               !.app.filter_regex = r])
                  ELSE w
         ELSE refresh_items([w EXCEPT !.app.filter = <<pat>>,
                                      !.app.filter_regex = <<>>])
    ELSE refresh_items([w EXCEPT !.app.filter = <<>>,
                                 !.app.filter_regex = <<>>])

\* process_command; env holds what the environment decides: the store a
\* load_or_create returns and the outcome of Locked::new.
process_command(w, command, env) ==
    LET parts == SplitWhitespace(TrimStartMatches(command, ":")) IN
    IF parts = <<>> THEN w
    ELSE IF parts[1] \in { <<"q">>, <<"q", "u", "i", "t">> }
    THEN [w EXCEPT !.app.should_quit = TRUE]
    ELSE IF parts[1] \in { <<"w", "i", "k", "i">>, <<"s", "w", "i", "t", "c", "h">> }
    THEN (IF Len(parts) > 1 THEN switch_wiki(w, env.loaded) ELSE w)
    ELSE IF parts[1] \in { <<"n">>, <<"n", "e", "w">> }
    THEN (IF Len(parts) > 1 THEN create_entry(w, JoinSpace(Tail(parts)), env.outcome)
          ELSE w)
    ELSE IF parts[1] \in { <<"s">>, <<"s", "e", "a", "r", "c", "h">> }
    THEN search(w, parts)
    ELSE IF parts[1] = <<"e", "d", "i", "t">>
    THEN start_inline_edit(w)
    ELSE IF parts[1] \in { <<"h", "e", "l", "p">>, <<"?">> }
    THEN [w EXCEPT !.app.show_help = ~@]
    ELSE w

\* A handler that runs a command or writes a cell: with the records the
\* store starts with, they are fewer than MaxOps.
Counted(w) == [w EXCEPT !.nops = @ + 1]

\* run_app, Command mode, Enter: the input is drained and processed, and
\* the mode is set to Normal after the command has run.
CommandEnter(w, env) ==
    LET done == process_command([w EXCEPT !.app.input = <<>>], w.app.input, env)
    IN  [done EXCEPT !.app.input_mode = "Normal"]

\* What the external editor can leave in the temporary file: the title, the
\* tags of the front matter when it has some, and the rest.
EditorResults ==
    { [title |-> <<>>, ntags |-> <<>>, rest |-> <<"a", "b">>],
      [title |-> <<"a", "b">>, ntags |-> << <<"p">> >>, rest |-> <<>>] }

\* run_app, Normal mode, Enter | 'e', once the temporary file is there: the
\* editor has run, its result is written back to the cell of the selected
\* row through a WritableKey, and the rows are refreshed.
open_in_editor(w, new, wrote) ==
    LET row == SelectedRow(w.app) IN
    IF row = <<>> THEN w
    ELSE LET li == find_locked_index_by_id(w.info, row[1].id) IN
         refresh_items(IF li = 0 THEN w
                       ELSE WriteCell(w, li, EditorEdited(w.info[li].val, new), wrote))

\* List's render on the ListState (terminal.draw, ui): nothing is selected
\* on an empty list and a selection beyond the rows is brought back to the
\* last one, unless the list's area is empty.
ListRender(sel, n, visible) ==
    IF ~visible THEN sel
    ELSE IF n = 0 THEN <<>>
    ELSE IF sel # <<>> /\ sel[1] >= n THEN <<n - 1>>
    ELSE sel

\* The keys that close the help overlay.
HelpClosesOnAnyKey(k) == TRUE
HelpCloses(k) ==
    \/ k.code \in {"F1", "Esc"}
    \/ k.code = "Char" /\ k.ch \in {"?", "h"}

\* The stores Wiki::load_or_create can return to switch_wiki: the store's
\* own directory read again, in any order of the loaders, or nothing of it
\* when it cannot be listed; or a directory that did not exist, made or not.
Loads ==
    (IF dirExists
     THEN { [info |-> [k \in 1..Len(o) |-> LockedLoadFrom(disk[o[k]], o[k], TRUE)[1]],
             disk |-> disk, dirExists |-> TRUE] : o \in Orders(Loadable(disk, {})) }
          \cup { [info |-> <<>>, disk |-> disk, dirExists |-> TRUE] }
     ELSE {})
    \cup { [info |-> <<>>, disk |-> [i \in Ids |-> NoFile], dirExists |-> made] :
               made \in BOOLEAN }

tuiRest == <<phase, pending, results, last, answer, scored, nLoaded,
             nCommitted, created, edited, fault, openFailed>>

TuiWorld == World(app, info, disk, dirExists, nextId, nops)

\* The App and the store after a handler; the loop goes on unless
\* should_quit is set.
Handled(w) ==
    /\ app' = w.app
    /\ info' = w.info
    /\ disk' = w.disk
    /\ dirExists' = w.dirExists
    /\ nextId' = w.nextId
    /\ nops' = w.nops
    /\ loopAt' = IF w.app.should_quit THEN "quit" ELSE "draw"

\* terminal.draw(|f| ui(f, app)) at the top of the loop
Draw ==
    /\ loopAt = "draw"
    /\ \E visible \in BOOLEAN :
         app' = [app EXCEPT !.selected = ListRender(@, Len(app.items), visible)]
    /\ loopAt' = "event"
    /\ UNCHANGED <<info, disk, dirExists, nextId, nops, tuiRest>>
    /\ UNCHANGED <<lockVars, libVars, scanVars>>

\* A key press while the help overlay is shown
HelpKey(k) ==
    /\ loopAt = "event"
    /\ app.show_help
    /\ app' = IF HelpCloses(k) THEN [app EXCEPT !.show_help = FALSE] ELSE app
    /\ loopAt' = "draw"
    /\ UNCHANGED <<info, disk, dirExists, nextId, nops, tuiRest>>
    /\ UNCHANGED <<lockVars, libVars, scanVars>>

\* A key press in Normal mode
NormalKey(k) ==
    /\ loopAt = "event"
    /\ ~app.show_help
    /\ app.input_mode = "Normal"
    /\ LET w == TuiWorld IN
       IF k.code = "Char" /\ k.ch = "q"
       THEN Handled([w EXCEPT !.app.should_quit = TRUE])
       ELSE IF k.code = "Char" /\ k.ch = ":"
       THEN Handled([w EXCEPT !.app.input_mode = "Command",
                              !.app.input = Append(@, ":")])
       ELSE IF (k.code = "Char" /\ k.ch = "j") \/ k.code = "Down"
       THEN Handled([w EXCEPT !.app = next(@)])
       ELSE IF (k.code = "Char" /\ k.ch = "k") \/ k.code = "Up"
       THEN Handled([w EXCEPT !.app = previous(@)])
       ELSE IF k.code = "Char" /\ k.ch = "i"
       THEN Handled(start_inline_edit(w))
       ELSE IF k.code = "Enter" \/ (k.code = "Char" /\ k.ch = "e")
       THEN IF SelectedRow(app) = <<>>
            THEN Handled(w)
            ELSE \E tmp \in BOOLEAN :
                   IF tmp
                   THEN \E new \in EditorResults, wrote \in BOOLEAN :
                            /\ nops < MaxOps - 1
                            /\ Handled(Counted(open_in_editor(w, new, wrote)))
                   ELSE /\ loopAt' = "quit"
                        /\ UNCHANGED <<app, info, disk, dirExists, nextId, nops>>
       ELSE IF k.code = "F1"
       THEN Handled([w EXCEPT !.app.show_help = ~@])
       ELSE Handled(w)
    /\ UNCHANGED tuiRest
    /\ UNCHANGED <<lockVars, libVars, scanVars>>

\* A key press in Command mode (Up and Down, which walk the history, are
\* not pressed there)
CommandKey(k) ==
    /\ loopAt = "event"
    /\ ~app.show_help
    /\ app.input_mode = "Command"
    /\ k.code \notin {"Up", "Down"}
    /\ LET w == TuiWorld IN
       IF k.code = "Enter"
       THEN \E loaded \in Loads, outcome \in {"ok", "open", "write"} :
              /\ dirExists \/ outcome = "open"
              /\ nops < MaxOps - 1
              /\ Handled(Counted(
                     CommandEnter(w, [loaded |-> loaded, outcome |-> outcome])))
       ELSE IF k.code = "Char"
       THEN /\ Typable(Append(app.input, k.ch))
            /\ Handled([w EXCEPT !.app.input = Append(@, k.ch)])
       ELSE IF k.code = "Backspace"
       THEN Handled([w EXCEPT !.app.input = Pop(@),
                              !.app.input_mode =
                                  IF Pop(app.input) = <<>> THEN "Normal" ELSE @])
       ELSE IF k.code = "Esc"
       THEN Handled([w EXCEPT !.app.input = <<>>, !.app.input_mode = "Normal"])
       ELSE Handled(w)
    /\ UNCHANGED tuiRest
    /\ UNCHANGED <<lockVars, libVars, scanVars>>

\* A key press in Edit mode (characters are pushed on a buffer shorter than
\* MaxOps - 3)
EditKey(k) ==
    /\ loopAt = "event"
    /\ ~app.show_help
    /\ app.input_mode = "Edit"
    /\ LET w == TuiWorld IN
       IF k.code = "Enter"
       THEN /\ Len(app.edit_buffer) < MaxOps - 3
            /\ Handled([w EXCEPT !.app.edit_buffer = Append(@, "\n")])
       ELSE IF k.code = "Char"
       THEN IF k.ctrl /\ k.ch = "s"
            THEN \E wrote \in BOOLEAN :
                   /\ nops < MaxOps - 1
                   /\ Handled(Counted(save_inline_edit(w, wrote)))
            ELSE /\ k.ch \in EditChars
                 /\ Len(app.edit_buffer) < MaxOps - 3
                 /\ Handled([w EXCEPT !.app.edit_buffer = Append(@, k.ch)])
       ELSE IF k.code = "Backspace"
       THEN Handled([w EXCEPT !.app.edit_buffer = Pop(@)])
       ELSE IF k.code = "Esc"
       THEN Handled(cancel_inline_edit(w))
       ELSE Handled(w)
    /\ UNCHANGED tuiRest
    /\ UNCHANGED <<lockVars, libVars, scanVars>>

\* A mouse event: the wheel, or a left click on row idx of the terminal
\* (nothing when the terminal's size cannot be read)
Mouse(kind, idx, sized) ==
    /\ loopAt = "event"
    /\ kind = "Left" \/ (idx = 0 /\ sized)
    /\ app' = IF kind = "ScrollDown" THEN next(app)
              ELSE IF kind = "ScrollUp" THEN previous(app)
              ELSE IF kind = "Left" /\ sized /\ idx < Len(app.items)
              THEN [app EXCEPT !.selected = <<idx>>]
              ELSE app
    /\ loopAt' = "draw"
    /\ UNCHANGED <<info, disk, dirExists, nextId, nops, tuiRest>>
    /\ UNCHANGED <<lockVars, libVars, scanVars>>

\* The facts committed to the store the interface is started on.
TuiFacts ==
    { << [fact |-> <<"a", "b">>, tags |-> <<"p">>],
         [fact |-> <<"A", "x", "b">>, tags |-> <<"P", "w">>] >> }

\* App::new on the store load_or_create returned to run
TuiInit ==
    /\ LockInit /\ LibIdle
    /\ scan = [op |-> "none", i |-> 0, q |-> <<>>, tagf |-> <<>>, acc |-> <<>>,
               holding |-> FALSE]
    /\ info \in { Committed(c) : c \in TuiFacts }
    /\ disk = [i \in Ids |-> IF i <= Len(info) THEN Serialize(info[i].val) ELSE NoFile]
    /\ dirExists \in (IF info = <<>> THEN BOOLEAN ELSE {TRUE})
    /\ phase = "ready" /\ pending = {} /\ results = <<>>
    /\ nextId = Len(info) + 1
    /\ last = [op |-> "new", ok |-> TRUE, id |-> 0, text |-> <<>>, tags |-> <<>>]
    /\ answer = <<>> /\ scored = <<>>
    /\ nLoaded = Len(info) /\ nCommitted = 0
    /\ created = {} /\ edited = {} /\ nops = Len(info)
    /\ fault = FALSE /\ openFailed = {}
    /\ app = AppNew(info)
    /\ loopAt = "draw"

TuiNext ==
    \/ Draw
    \/ \E k \in Keys : HelpKey(k)
    \/ \E k \in Keys : NormalKey(k)
    \/ \E k \in Keys : CommandKey(k)
    \/ \E k \in Keys : EditKey(k)
    \/ \E kind \in {"ScrollDown", "ScrollUp", "Left", "Moved"},
          idx \in 0..(MaxOps - 1), sized \in BOOLEAN : Mouse(kind, idx, sized)

TuiSpec == TuiInit /\ [][TuiNext]_vars

----------------------------------------------------------------------------
\* Claims about the guard (LockSpec).

CellIdle == SharedLive = {} /\ ExclusiveLive = {}
SharedBusy == SharedLive # {} /\ ExclusiveLive = {}
ExclusiveBusy == ExclusiveLive # {} /\ SharedLive = {}

\* C1: at most one exclusive guard (WritableKey) on the cell is live at any
\* time; a second thread is granted one only after the first is released.
C1_AtMostOneExclusive == Cardinality(ExclusiveLive) <= 1

\* C2: a live shared guard and a live exclusive guard never coexist: the cell
\* is always in exactly one of Idle, SharedBusy, ExclusiveBusy, and it does
\* not go from SharedBusy to ExclusiveBusy or back without passing Idle.
C2_SharedXorExclusive ==
    /\ [](CellIdle \/ SharedBusy \/ ExclusiveBusy)
    /\ [][/\ ~(SharedBusy /\ ExclusiveBusy')
          /\ ~(ExclusiveBusy /\ SharedBusy')]_vars

\* C5: while no exclusive guard is live a thread in read() does not wait,
\* whatever the number of shared guards already held, and every holder of a
\* shared guard granted and kept without a live exclusive guard observes the
\* cell's one in-memory value.
C5_SharedReadersAgree ==
    \A t \in Threads :
        /\ (pc[t] = "r_spin" /\ ExclusiveLive = {}) => ~ReadMustSpin
        /\ (pc[t] = "r_hold" /\ clean[t] /\ seen[t] # <<>>) =>
               /\ seen[t] = <<in_memory>>
               /\ \A u \in Threads :
                      (pc[u] = "r_hold" /\ clean[u] /\ seen[u] # <<>>) =>
                          seen[u] = seen[t]

\* Every thread holds a shared guard at once, each granted with no exclusive
\* guard live, and each has read the value.
C5_Witness ==
    \A t \in Threads : pc[t] = "r_hold" /\ clean[t] /\ seen[t] # <<>>

----------------------------------------------------------------------------
\* Claims about the store (Spec).

Vals == [i \in 1..Len(info) |-> info[i].val]

\* n occurs in h as an in-order subsequence.
IsSubseq(n, h) ==
    \E f \in [1..Len(n) -> 1..Len(h)] :
        /\ \A k \in 1..(Len(n) - 1) : f[k] < f[k + 1]
        /\ \A k \in 1..Len(n) : h[f[k]] = n[k]

\* The condition under which fuzzy_match finds the query in a field.
Matches(q, field) == IsSubseq(q, Fold(field))

\* C3: right after an exclusive guard's release has written the value, the
\* whole backing file of the cell is exactly one serialization of the
\* in-memory value (the write replaces the content, it does not append).
C3_FileIsOneSerialization ==
    (phase = "ready" /\ last.op \in {"edit", "editor"} /\ last.ok) =>
        \A i \in 1..Len(info) :
            info[i].val.id = last.id =>
                disk[info[i].path] = Serialize(info[i].val)

\* C4: after load_or_create, every record a commit created and no guard
\* edited, whose file the loader could open in a directory that could be
\* listed, is in the store with the same id, name, tags and data.
C4_RoundTrip ==
    (phase = "ready" /\ last.op = "load" /\ ~fault) =>
        \A r \in created :
            (r.id \notin edited /\ r.id \notin openFailed) =>
                \E i \in 1..Len(info) : info[i].val = r

C4_Witness ==
    /\ phase = "ready" /\ last.op = "load" /\ ~fault /\ nLoaded >= 2
    /\ \E r \in created :
         /\ r.id \notin edited /\ r.id \notin openFailed
         /\ Len(r.tags) = 2

\* C6: a successful commit appends exactly one cell at the end, leaves the
\* earlier cells and their positions as they were, the new record has
\* name = data = the text, the given tags and the returned id, and its file
\* <dir>/<id>.json holds the record when commit returns.
C6_CommitAppends ==
    [][(nextId' # nextId /\ last'.ok) =>
          /\ Len(info') = Len(info) + 1
          /\ SubSeq(info', 1, Len(info)) = info
          /\ info'[Len(info')].val =
                 [id |-> last'.id, tags |-> last'.tags,
                  name |-> last'.text, data |-> last'.text]
          /\ info'[Len(info')].path = last'.id
          /\ WellFormed(disk'[last'.id])
          /\ Deserialize(disk'[last'.id]) = info'[Len(info')].val]_vars

C6_Witness ==
    /\ last.op = "commit" /\ last.ok /\ Len(info) >= 2
    /\ info[Len(info)].val.id = last.id
    /\ info[1].val.name # info[1].val.data

\* C7: the number of records in the store is the number present when
\* load_or_create returned plus the number of commits that returned Ok since;
\* failing commits, recalls and guard releases leave it alone.
C7_CountIsLoadedPlusCommitted ==
    phase = "ready" => Len(info) = nLoaded + nCommitted

C7_Witness ==
    /\ phase = "ready" /\ nLoaded >= 1 /\ nCommitted >= 1
    /\ last.op = "commit" /\ ~last.ok

\* C8: recall_by_tag(t) returns exactly the records whose tag list holds a
\* string equal to t, each once, in the order of the collection.
C8_ByTagExact ==
    last.op = "recall_by_tag" =>
        answer = SelectSeq(Vals,
                     LAMBDA r : last.tags[1] \in { r.tags[k] : k \in 1..Len(r.tags) })

C8_Witness ==
    /\ last.op = "recall_by_tag" /\ Len(info) >= 3 /\ Len(answer) = 2
    /\ answer[1].tags[1] # last.tags[1]
    /\ answer[1] = info[1].val /\ answer[2] = info[3].val

C10_RankedByBestScore ==
    last.op = "recall" =>
        \A k \in 1..Len(scored) :
            <<scored[k].score>> =
                OptMax(FuzzyMatch(scored[k].rec.name, last.text),
                       FuzzyMatch(scored[k].rec.data, last.text))

\* The place in the collection of the cell a returned record was copied from.
PosOf(r) == CHOOSE i \in 1..Len(info) : info[i].val = r

\* C11: the sequence recall returns is ordered by non-increasing score, and
\* records with equal scores keep the order their cells have in the
\* collection (the sort is stable).
C11_SortedStable ==
    last.op = "recall" =>
        /\ answer = [k \in 1..Len(scored) |-> scored[k].rec]
        /\ \A k, l \in 1..Len(scored) :
               k < l =>
                   /\ scored[k].score >= scored[l].score
                   /\ scored[k].score = scored[l].score =>
                          PosOf(scored[k].rec) < PosOf(scored[l].rec)

\* A recall whose best record is not the first cell and whose two other
\* records tie.
C11_Witness ==
    /\ last.op = "recall" /\ Len(scored) = 3
    /\ PosOf(scored[1].rec) > 1
    /\ scored[1].score > scored[2].score
    /\ scored[2].score = scored[3].score

\* What recall(q, None) returns for the query of the last recall.
RecallNoTag ==
    LET sc == SortDesc(RecallLoop(info, 1, last.text, <<>>, <<>>), <<>>)
    IN  [k \in 1..Len(sc) |-> sc[k].rec]

\* C12: recall(q, Some(t)) returns recall(q, None) restricted to the records
\* whose tags contain t, in the same relative order.
C12_TagFilterRestricts ==
    (last.op = "recall" /\ last.tags # <<>>) =>
        answer = SelectSeq(RecallNoTag,
                     LAMBDA r : last.tags[1] \in { r.tags[k] : k \in 1..Len(r.tags) })

\* A filtered recall that returns two records and leaves out the one the
\* unfiltered recall ranks between them.
C12_Witness ==
    /\ last.op = "recall" /\ last.tags # <<>>
    /\ Len(RecallNoTag) = 3
    /\ answer = <<RecallNoTag[1], RecallNoTag[3]>>

\* The record the example's commit stores when it is the first operation on
\* the store: the id is the one that commit drew.
ExRecord == Information(nextId - 1, ExTags, ExFact, ExFact)

\* C13: on a store that was empty, after commit("Remember to call Alice",
\* ["personal"]) returned an id u1: recall("alice", None) returns exactly the
\* record with id u1 and name = data = the fact, recall_by_tag("personal")
\* returns that same single record, and recall_by_tag("work") returns the
\* empty sequence.
C13_Example ==
    (nops = 1 /\ nLoaded = 0 /\ Len(info) = 1) =>
        /\ last.op = "commit" => (last.ok /\ last.id = ExRecord.id)
        /\ last.op = "recall" => answer = <<ExRecord>>
        /\ (last.op = "recall_by_tag" /\ last.tags = <<"personal">>) =>
               answer = <<ExRecord>>
        /\ (last.op = "recall_by_tag" /\ last.tags = <<"work">>) =>
               answer = <<>>

C13_Witness ==
    /\ nops = 1 /\ Len(info) = 1
    /\ last.op = "recall" /\ last.text = ExQuery
    /\ answer = <<ExRecord>>

\* The record files a loader of the last bulk load opened and read as one
\* record.
LoadedOk == { f \in Ids : disk[f] # NoFile /\ f \notin openFailed /\ WellFormed(disk[f]) }

\* The cells of the collection opened on file f.
CellsOn(f) == { i \in 1..Len(info) : info[i].path = f }

\* C14: load_or_create on an existing directory runs one loader per record
\* file and returns only when every loader has terminated; whatever the
\* interleaving of the loaders, each cell a loader loaded is in the returned
\* collection exactly once.
C14_EveryLoadedCellOnce ==
    /\ phase = "ready" => pending = {}
    /\ (phase = "ready" /\ last.op = "load" /\ ~fault) =>
           /\ \A f \in LoadedOk : Cardinality(CellsOn(f)) = 1
           /\ \A i \in 1..Len(info) : info[i] = Loaded(info[i].path)

\* A load that returned two cells, pushed in the other order than their
\* ids.
C14_Witness ==
    /\ phase = "ready" /\ last.op = "load" /\ ~fault
    /\ Cardinality(LoadedOk) = 2 /\ Len(info) = 2
    /\ info[1].path > info[2].path

\* The values a record of the store can take, and whether a file's content
\* is the serialization of one of them.
RecordValues ==
    { Information(id, f.tags, n, d) :
          id \in Ids, f \in Facts, n \in Texts, d \in Texts \cup {<<>>} }
IsRecordFile(c) == \E r \in RecordValues : c = Serialize(r)

\* C15: in a bulk load a file that cannot be opened, or whose content is not
\* one serialized record, is skipped silently: load_or_create still returns a
\* store and no error, the store has a cell for every other record file of
\* the directory, and none for the failing one.
C15_FailedLoadSkipped ==
    (phase = "ready" /\ last.op = "load" /\ ~fault) =>
        /\ last.ok
        /\ \A f \in Ids :
               disk[f] # NoFile =>
                   IF f \in openFailed \/ ~IsRecordFile(disk[f])
                   THEN CellsOn(f) = {}
                   ELSE \E i \in CellsOn(f) : disk[f] = Serialize(info[i].val)

\* A load that returned a cell although one file could not be opened and
\* another does not hold one record.
C15_Witness ==
    /\ phase = "ready" /\ last.op = "load" /\ ~fault /\ Len(info) >= 1
    /\ \E f \in openFailed : IsRecordFile(disk[f])
    /\ \E f \in Ids \ openFailed : disk[f] # NoFile /\ ~IsRecordFile(disk[f])

\* A step that is a call of load_or_create.
LoadCall == nops' = nops + 1 /\ last'.op \in {"new", "load", "spawn"}

\* C16 as stated: when the directory does not exist, load_or_create creates
\* it and returns a store with an empty collection, so that the next
\* load_or_create takes the existing-directory branch.
C16_CreatesDirectory ==
    [][(~dirExists /\ LoadCall) =>
           (dirExists' /\ info' = <<>> /\ phase' = "ready")]_vars

\* C16, amended: when the directory does not exist, load_or_create returns a
\* store with an empty collection and reports nothing; the directory exists
\* afterwards exactly when create_dir_all did not fail.  Once the directory
\* exists it stays, and load_or_create takes the existing-directory branch:
\* it spawns the loaders unless the directory cannot be listed.
C16_CreatesDirectoryUnlessFails ==
    /\ [][dirExists => dirExists']_vars
    /\ [][LoadCall =>
              IF dirExists
              THEN last'.op # "new" /\ (phase' = "loading" \/ fault')
              ELSE /\ last' = Op("new", TRUE, 0, <<>>, <<>>)
                   /\ info' = <<>> /\ phase' = "ready"
                   /\ dirExists' <=> ~fault']_vars

\* load_or_create has gone through Wiki::new and the directory is there.
C16_Witness ==
    /\ last.op = "new" /\ nops = 1 /\ ~fault
    /\ dirExists /\ info = <<>> /\ phase = "ready"

\* C17: in every state of a store, after load_or_create and any commits and
\* edits, no two cells hold records with the same id; each cell's file is
\* the one named by its record's id, so no two cells are opened on the same
\* file.
C17_UniqueIds ==
    /\ \A i \in 1..Len(info) : info[i].path = info[i].val.id
    /\ \A i, j \in 1..Len(info) :
           i # j => (info[i].val.id # info[j].val.id /\ info[i].path # info[j].path)

\* A store with a loaded cell and a committed one, one of them edited.
C17_Witness ==
    /\ phase = "ready" /\ nLoaded >= 1 /\ nCommitted >= 1
    /\ \E i \in 1..Len(info) : info[i].val.id \in edited

\* C18: recall and recall_by_tag are read-only: across either call the
\* collection (length, order, every record's value, every cell's reader and
\* writer state, every file cursor), the record files and the directory are
\* unchanged; each Key taken has been dropped.
C18_RecallReadOnly ==
    [][last'.op \in {"recall", "recall_by_tag"} =>
           /\ info' = info
           /\ disk' = disk /\ dirExists' = dirExists
           /\ \A k \in 1..Len(answer') : \E i \in 1..Len(info) : answer'[k] = info[i].val]_vars

\* A recall has gone over a store of several cells, skipped one for its tags
\* and returned another; no Key is left.
C18_Witness ==
    /\ last.op = "recall" /\ last.tags # <<>>
    /\ Len(info) >= 2 /\ Len(answer) >= 1 /\ Len(answer) < Len(info)
    /\ \A i \in 1..Len(info) : info[i].readers = 0

\* C19: when the write (or the serialization) fails as a WritableKey is
\* dropped, nothing reaches the caller: the edit returns, the cell is left
\* without writer or reader and can be acquired again, and the cell's
\* in-memory value, the one a later Key derefs to, is the edited one.
C19_FailedWriteSwallowed ==
    [][(last'.op \in {"edit", "editor"} /\ nops' = nops + 1 /\ fault') =>
           /\ phase' = "ready" /\ ~last'.ok
           /\ Len(info') = Len(info)
           /\ \E i \in 1..Len(info) :
                  /\ info[i].val.id = last'.id
                  /\ info'[i].val.id = last'.id
                  /\ info'[i].val.data = last'.text
                  /\ ~info'[i].writer /\ info'[i].readers = 0
                  /\ Visited(info')[i].val = info'[i].val
                  /\ \A j \in 1..Len(info) : j # i => info'[j] = info[j]]_vars

\* An edit whose write failed: the file still holds the record as committed,
\* the cell holds the edit.
C19_Witness ==
    /\ last.op = "edit" /\ ~last.ok /\ fault
    /\ \E i \in 1..Len(info) :
         /\ info[i].val.id = last.id
         /\ info[i].val.data = last.text
         /\ IsRecordFile(disk[info[i].path])
         /\ disk[info[i].path] # Serialize(info[i].val)

\* C20: Locked::load returns an error, never a cell, when the file does not
\* exist, cannot be opened, or does not hold one serialized record, and a
\* cell it does return holds the record the file serializes; Locked::new
\* returns an error when the file cannot be created or opened, and the
\* commit that called it returns the error and adds no cell.
C20_LoadAndCreateErrors ==
    /\ \A f \in Ids, opened \in BOOLEAN :
           IF disk[f] = NoFile \/ ~opened \/ ~IsRecordFile(disk[f])
           THEN LockedLoad(f, opened) = <<>>
           ELSE /\ Len(LockedLoad(f, opened)) = 1
                /\ disk[f] = Serialize(LockedLoad(f, opened)[1].val)
    /\ \A r \in created : LockedNew(r.id, r, "open") = <<>>
    /\ (last.op = "commit" /\ fault) =>
           /\ ~last.ok
           /\ \A i \in 1..Len(info) : info[i].val.id # last.id

\* The directory holds a file with more than one serialization in it and a
\* file that is one record, and a commit has just failed.
C20_Witness ==
    /\ last.op = "commit" /\ fault /\ ~last.ok
    /\ \E f \in Ids : Len(disk[f]) > 7 /\ ~IsRecordFile(disk[f])
    /\ \E f \in Ids : IsRecordFile(disk[f])

----------------------------------------------------------------------------
\* Claims about the library context (LibSpec).

LibCalls == {"commit", "recall", "recall_by_tag", "book"}

\* The last library call returned the no-context error.
NoContextError == last.op \in LibCalls /\ ~last.ok /\ ~fault

\* C21: commit, recall, recall_by_tag and book called on a thread that has
\* not switched return the no-context error and change nothing; switch(name)
\* always returns Ok and leaves the thread with the store for name, and from
\* then on the thread keeps a store, so that its recall and recall_by_tag
\* never return that error.
C21_ContextRequired ==
    /\ [][(last'.op \in LibCalls /\ current[caller'] = <<>>) =>
              /\ ~last'.ok /\ ~fault' /\ answer' = <<>>
              /\ UNCHANGED <<current, useGlobal, fs, localRoot, dataDir, nextId>>]_vars
    /\ [](last.op = "switch" =>
              /\ last.ok
              /\ current[caller] # <<>>
              /\ current[caller][1].name = last.text[1])
    /\ [][\A t \in LibThreads : current[t] # <<>> => current'[t] # <<>>]_vars
    /\ []((last.op \in {"recall", "recall_by_tag"} /\ current[caller] # <<>>) =>
              last.ok)

\* A thread without a store is refused a commit while the other thread has
\* a store with a record in it.
C21_Witness ==
    /\ last.op = "commit" /\ NoContextError
    /\ current[caller] = <<>>
    /\ \E t \in LibThreads : current[t] # <<>> /\ Len(current[t][1].info) >= 1

\* C34: the current store and the use-global flag are per thread: a call
\* made on one thread leaves the store and the flag of every other thread
\* as they were; a thread gets a store by its own switch only, and until
\* then its commit, recall and recall_by_tag return the no-context error,
\* whatever store the other threads have.
C34_ContextPerThread ==
    /\ [][\A t \in LibThreads :
              t # caller' =>
                  (current'[t] = current[t] /\ useGlobal'[t] = useGlobal[t])]_vars
    /\ [][\A t \in LibThreads :
              (current[t] = <<>> /\ current'[t] # <<>>) =>
                  (caller' = t /\ last'.op = "switch")]_vars
    /\ [][(/\ last'.op \in {"commit", "recall", "recall_by_tag"}
           /\ current[caller'] = <<>>
           /\ \E u \in LibThreads : current[u] # <<>>) =>
              (~last'.ok /\ ~fault' /\ current'[caller'] = <<>>)]_vars

\* Thread A has set use_global and switched; thread B, which has done
\* neither, is refused a recall.
C34_Witness ==
    /\ caller = "B" /\ last.op = "recall" /\ NoContextError
    /\ current["B"] = <<>> /\ ~useGlobal["B"]
    /\ current["A"] # <<>> /\ useGlobal["A"]

\* The path the specification gives for name on thread t.
SpecPath(t, name) ==
    IF useGlobal[t] THEN GlobalPath(name, dataDir)
    ELSE IF localRoot THEN LocalPath(name)
    ELSE GlobalPath(name, dataDir)

\* C22: get_wiki_path is a function of the name, use_global and whether the
\* local root .wiki exists: the global path <data-dir>/twk/<name> when
\* use_global is set, even with a local root; otherwise .wiki/<name> exactly
\* when the local root exists and the global path when it does not.  It
\* always returns a path, and a switch installs the store of that path.
C22_ResolvePath ==
    /\ \A t \in LibThreads, n \in Names :
           /\ Resolve(t, n) = SpecPath(t, n)
           /\ Resolve(t, n) \in StorePaths
    /\ last.op = "switch" =>
           current[caller][1].path = SpecPath(caller, last.text[1])

\* With a local root, one thread has switched with use_global set and holds
\* the global store while the other holds the local one.
C22_Witness ==
    /\ last.op = "switch" /\ localRoot /\ useGlobal[caller]
    /\ current[caller][1].path = GlobalPath(last.text[1], dataDir)
    /\ \E t \in LibThreads :
         current[t] # <<>> /\ current[t][1].path = LocalPath(last.text[1])

----------------------------------------------------------------------------
\* Claims about the loop of recall and recall_by_tag (ScanSpec).

\* The cells of the store a Key is live on.
HeldCells == { i \in 1..Len(info) : info[i].readers > 0 }

\* C25: recall and recall_by_tag hold at most one Key at any point: the Key
\* on cell i is taken with none held, it is dropped before the next one is
\* taken, whether cell i was skipped by the tag filter, did not match or was
\* pushed, and the cells are visited in collection order from the first.
\* What the loop returns is what the one-step recall of Spec returns.
C25_OneGuardAtATime ==
    /\ [](/\ Cardinality(HeldCells) <= 1
          /\ HeldCells = (IF scan.holding THEN {scan.i} ELSE {}))
    /\ [][\A j \in 1..Len(info) :
              info'[j].readers > info[j].readers =>
                  (HeldCells = {} /\ j = scan.i /\ scan'.i = j)]_vars
    /\ [][(scan.op # "none" /\ scan'.op # "none") =>
              /\ scan'.i \in {scan.i, scan.i + 1}
              /\ scan'.i = scan.i + 1 => HeldCells' = {}]_vars
    /\ [][(scan.op = "none" /\ scan'.op # "none") => scan'.i = 1]_vars
    /\ [](last.op = "recall" =>
              scored = SortDesc(RecallLoop(info, 1, last.text, last.tags, <<>>), <<>>))
    /\ [](last.op = "recall_by_tag" =>
              answer = ByTagLoop(info, 1, last.tags[1], <<>>))

\* A filtered recall holds the Key on the third cell after it skipped the
\* first for its tags and pushed the second.
C25_Witness ==
    /\ scan.op = "recall" /\ scan.tagf # <<>>
    /\ scan.holding /\ scan.i = 3
    /\ ~Contains(info[1].val.tags, scan.tagf[1])
    /\ Len(scan.acc) = 1 /\ scan.acc[1].rec = info[2].val

----------------------------------------------------------------------------
\* More claims about the bulk load (Spec).

\* C26: what load_or_create returns depends on the interleaving of its
\* loaders for the order of the cells only: the set of cells of the returned
\* store is the set of the cells of the files that opened and parsed, one
\* cell each, a function of the directory and of the opens' outcomes that no
\* schedule of the loaders enters; while loaders still run, what they pushed
\* is that function of the files already handled.
C26_LoadedSetAnyInterleaving ==
    /\ (phase = "ready" /\ last.op = "load" /\ ~fault) =>
           /\ { info[i] : i \in 1..Len(info) } = { Loaded(f) : f \in LoadedOk }
           /\ Len(info) = Cardinality(LoadedOk)
    /\ phase = "loading" =>
           /\ { results[i] : i \in 1..Len(results) } =
                  { Loaded(f) : f \in LoadedOk \ pending }
           /\ Len(results) = Cardinality(LoadedOk \ pending)

\* A load of three record files returned their cells in an order that is
\* neither that of the ids nor its reverse.
C26_Witness ==
    /\ phase = "ready" /\ last.op = "load" /\ ~fault
    /\ Len(info) = 3 /\ Cardinality(LoadedOk) = 3
    /\ info[1].path = 2 /\ info[2].path = 3 /\ info[3].path = 1

----------------------------------------------------------------------------
\* Claims about the records' identity and the edits (Spec).

\* C27: the id of a record never changes after its creation: a cell's record
\* bears the id its file is named by, in memory and across loads; no
\* operation on the store in use changes the id or the file of a cell it
\* has, and an edit changes one cell, of which it leaves the id alone (name,
\* tags and data are the only fields it may change).
C27_IdNeverChanges ==
    /\ [](\A i \in 1..Len(info) : info[i].val.id = info[i].path)
    /\ [][(phase = "ready" /\ ~LoadCall) =>
              \A i \in 1..Len(info) :
                  /\ i <= Len(info')
                  /\ info'[i].val.id = info[i].val.id
                  /\ info'[i].path = info[i].path]_vars
    /\ [][(nops' = nops + 1 /\ last'.op \in {"edit", "editor"}) =>
              /\ Len(info') = Len(info)
              /\ \E i \in 1..Len(info) :
                    /\ info[i].val.id = last'.id
                    /\ \A j \in 1..Len(info) : j # i => info'[j] = info[j]]_vars

\* An inline edit and an edit in the external editor have changed the data,
\* the name and the tags of the second of two records.
C27_Witness ==
    /\ last.op = "edit" /\ last.ok /\ last.id = 2
    /\ Len(info) = 2 /\ info[2].val.id = 2
    /\ \E r \in created :
          /\ r.id = 2
          /\ r.name # info[2].val.name
          /\ r.tags # info[2].val.tags
          /\ r.data # info[2].val.data

----------------------------------------------------------------------------
\* Claims about letter case in recall (Spec).

\* q is matched by field when a query character is matched only by an
\* identical character of the field.
MatchesExactly(q, field) == IsSubseq(q, field)

\* q is matched by field when a query character is matched by the field
\* characters whose lower-case form it is.
MatchesFolded(q, field) ==
    IsSubseq(q, [i \in 1..Len(field) |-> Lower(field[i])])

----------------------------------------------------------------------------
\* Claims about failing commits and about reloads (Spec).

\* C29: a commit that fails, because the directory cannot be created or
\* because the record's file cannot be created or written, returns the
\* error and leaves the in-memory collection as it was; a commit that
\* returns an error is one that failed.
C29_FailedCommitKeepsCollection ==
    [][(nops' = nops + 1 /\ last'.op = "commit") =>
          /\ fault' <=> ~last'.ok
          /\ fault' => info' = info]_vars

\* A commit on a store of two records has failed: the error is returned,
\* the two cells are there, and none bears the id the commit drew.
C29_Witness ==
    /\ last.op = "commit" /\ ~last.ok /\ fault
    /\ Len(info) = 2
    /\ \A i \in 1..Len(info) : info[i].val.id # last.id

\* C30: edits survive a reload: a load_or_create of the directory, all of
\* whose files it could open, returns as many records as were committed,
\* among them every record that was edited, and every record that was not
\* with the fields it was created with.
C30_EditsSurviveReload ==
    (phase = "ready" /\ last.op = "load" /\ ~fault /\ openFailed = {}) =>
        /\ Len(info) = Cardinality(created)
        /\ \A id \in edited : \E i \in 1..Len(info) : info[i].val.id = id
        /\ \A r \in created :
               r.id \notin edited => \E i \in 1..Len(info) : info[i].val = r

----------------------------------------------------------------------------
\* Claims about the terminal interface (TuiSpec).

\* The step is the Enter of Command mode on the line typed.
EnterOn(line) ==
    /\ loopAt = "event" /\ ~app.show_help
    /\ app.input_mode = "Command" /\ app.input = line
    /\ nops' = nops + 1

\* The record of the store with the id.
RecordOf(cells, id) == cells[find_locked_index_by_id(cells, id)].val

\* C35: the command :edit, run in command mode while an entry is selected,
\* starts the inline editing: once the command has been processed the app
\* is in Edit mode, editing_id is the selected entry's id and the edit
\* buffer holds that entry's data, as after 'i' in Normal mode.
C35_EditCommandStartsEditing ==
    [][(EnterOn(<<":", "e", "d", "i", "t">>) /\ SelectedRow(app) # <<>>) =>
          /\ app'.input_mode = "Edit"
          /\ app'.editing_id = <<SelectedRow(app)[1].id>>
          /\ app'.edit_buffer = RecordOf(info, SelectedRow(app)[1].id).data]_vars

\* The step is a key press handled in Edit mode.
InEditMode == loopAt = "event" /\ ~app.show_help /\ app.input_mode = "Edit"

\* C36: in Edit mode Ctrl-S sets the data of the record whose id is
\* editing_id to the edit buffer through a WritableKey, which is dropped;
\* it changes no other field of the record and no other record, and leaves
\* the app in Normal mode with editing_id cleared.  Esc changes no record
\* and no file, clears the edit buffer and editing_id and leaves the app in
\* Normal mode.  No other key of Edit mode leaves the mode or touches the
\* store, and Edit mode always has the record it edits.
C36_SaveAndCancel ==
    /\ [](app # <<>> /\ app.input_mode = "Edit" =>
              /\ app.editing_id # <<>>
              /\ find_locked_index_by_id(info, app.editing_id[1]) # 0)
    /\ [][(InEditMode /\ nops' = nops + 1) =>
              LET li == find_locked_index_by_id(info, app.editing_id[1]) IN
              /\ Len(info') = Len(info)
              /\ info'[li].val = [info[li].val EXCEPT !.data = app.edit_buffer]
              /\ ~info'[li].writer /\ info'[li].readers = 0
              /\ info'[li].path = info[li].path
              /\ \A j \in 1..Len(info) : j # li => info'[j] = info[j]
              /\ \A f \in Ids : f # info[li].path => disk'[f] = disk[f]
              /\ app'.input_mode = "Normal"
              /\ app'.editing_id = <<>>]_vars
    /\ [][(InEditMode /\ nops' = nops /\ app'.input_mode # "Edit") =>
              /\ info' = info /\ disk' = disk
              /\ app'.edit_buffer = <<>>
              /\ app'.editing_id = <<>>
              /\ app'.input_mode = "Normal"]_vars
    /\ [][(InEditMode /\ nops' = nops) => (info' = info /\ disk' = disk)]_vars

\* Ctrl-S has saved a buffer shortened in the inline editor: the app is back
\* in Normal mode without editing_id, the second record's data is the
\* buffer, its committed data less the last character, and the first
\* record is as committed.
C36_Witness ==
    /\ loopAt = "draw" /\ app.input_mode = "Normal" /\ app.editing_id = <<>>
    /\ nops = Len(info) + 1
    /\ Len(info) = 2
    /\ app.edit_buffer = Pop(info[2].val.name)
    /\ info[2].val.data = app.edit_buffer
    /\ info[1].val.data = info[1].val.name
    /\ ~info[2].writer

\* C37: while the help overlay is shown a key press changes nothing but
\* show_help: F1, Esc, '?' and 'h' hide the overlay and every other key is
\* ignored; the keys reach no handler of the input modes, and no event
\* changes the mode, the input, the edit buffer, the records or should_quit.
C37_HelpOverlayKeys ==
    /\ [][(loopAt = "event" /\ app.show_help) =>
              \A k \in Keys :
                  HelpKey(k) =>
                      IF \/ k.code \in {"F1", "Esc"}
                         \/ (k.code = "Char" /\ k.ch \in {"?", "h"})
                      THEN app' = [app EXCEPT !.show_help = FALSE]
                      ELSE app' = app]_vars
    /\ [][(loopAt = "event" /\ app.show_help) =>
              \A k \in Keys : ~(NormalKey(k) \/ CommandKey(k) \/ EditKey(k))]_vars
    /\ [][(loopAt = "event" /\ app.show_help) =>
              /\ app' = [app EXCEPT !.show_help = app'.show_help,
                                    !.selected = app'.selected]
              /\ app'.show_help # app.show_help => app'.selected = app.selected
              /\ UNCHANGED <<info, disk, dirExists, nextId, nops>>]_vars

\* The overlay is shown over a list whose second row is selected, a key
\* having just been handled, after :edit had set editing_id.
C37_Witness ==
    /\ loopAt = "draw" /\ app.show_help
    /\ app.selected = <<1>> /\ app.editing_id # <<>>
    /\ app.input_mode = "Normal" /\ ~app.should_quit

\* C38: after any sequence of operations of the interface the selected
\* index, when there is one, is an index of the rows shown: nothing is
\* selected when there is no row.
C38_SelectionInRange ==
    (app # <<>> /\ app.selected # <<>>) => app.selected[1] < Len(app.items)

----------------------------------------------------------------------------
\* Claims about the counters of a cell (LockSpec).

\* C31: in every reachable state of a cell the reader counter is the number
\* of live Keys on it, so it never goes below zero, and when no Key and no
\* WritableKey on the cell is live the cell is idle: the counter is 0 and
\* the writer flag is false.
C31_ReadersCountLiveKeys ==
    /\ readers = Cardinality(SharedLive)
    /\ readers >= 0
    /\ (SharedLive = {} /\ ExclusiveLive = {}) => (readers = 0 /\ ~writer)

\* Two Keys are live and counted, a third thread's WritableKey having
\* written the value back and been dropped before.
C31_Witness ==
    /\ Cardinality(SharedLive) = 2 /\ readers = 2
    /\ ExclusiveLive = {} /\ ~writer
    /\ nacq >= 1 /\ fpos > Len(Serialize(LockV0))

\* C32: in every reachable state of a cell the writer flag is true while a
\* WritableKey on it is live: the drop of one WritableKey never makes the
\* cell acquirable while another one is still live.
C32_FlagWhileExclusiveLive == ExclusiveLive # {} => writer

\* The threads inside read() and inside write(), not granted yet.
PendingShared == { t \in Threads : pc[t] \in {"r_spin", "r_inc"} }
PendingExclusive == { t \in Threads : pc[t] \in {"w_spin", "w_spin2", "w_set"} }

\* C33: when finitely many acquisitions are requested and every thread goes
\* on running, so that every granted guard is dropped, every pending read()
\* is eventually granted its Key and every pending write() its WritableKey,
\* and every drop of a WritableKey ends: the lock does not deadlock.
C33_PendingEventuallyGranted ==
    \A t \in Threads :
        /\ (t \in PendingShared) ~> (pc[t] = "r_hold")
        /\ (t \in PendingExclusive) ~> (pc[t] = "w_hold")
        /\ (t \in SharedLive \cup ExclusiveLive) ~> (pc[t] = "idle")

\* Every acquisition of the budget has been requested: a read() holds its
\* Key after the WritableKey of another thread's write() wrote the value
\* back and was dropped.
C33_Witness ==
    /\ nacq = MaxAcquire
    /\ fpos > Len(Serialize(LockV0))
    /\ ExclusiveLive = {} /\ PendingExclusive = {}
    /\ \E t \in Threads : pc[t] = "r_hold"

----------------------------------------------------------------------------
\* More claims about the guard (LockSpec).

\* Thread w is in the loop of write() and thread r, with no writer flag set,
\* is at the given place of its read()/drop cycle.
Starving(r, w, at) ==
    /\ r # w
    /\ pc[w] = "w_spin" /\ pc[r] = at
    /\ ~writer
    /\ at = "r_hold" => (readers > 0 /\ seen[r] = <<>>)

\* The same with w about to load the reader count.
StarvingAtReaders(r, w) ==
    /\ r # w
    /\ pc[w] = "w_spin2" /\ pc[r] = "r_hold"
    /\ ~writer /\ readers > 0 /\ seen[r] = <<>>

\* C23: acquisition is not fair. From any state where a thread w spins in
\* write() while a thread r holds a Key, there is a round that leads back to
\* such a state: w evaluates its loop condition (both loads) and stays in
\* the loop, then r drops its Key, calls read() again and is granted a new
\* Key.  Repeated for ever, every Key is held finitely long, w keeps taking
\* steps, and w is never granted the WritableKey.
C23_WriterCanStarve ==
    \A r, w \in Threads :
        /\ Starving(r, w, "r_hold") =>
               /\ ENABLED (WriteSpinWriter(w) /\ StarvingAtReaders(r, w)')
               /\ ENABLED (DropKey(r) /\ Starving(r, w, "idle")')
        /\ StarvingAtReaders(r, w) =>
               ENABLED (WriteSpinReaders(w) /\ Starving(r, w, "r_hold")')
        /\ Starving(r, w, "idle") =>
               ENABLED (CallRead(r) /\ Starving(r, w, "r_spin")')
        /\ Starving(r, w, "r_spin") =>
               ENABLED (ReadSpin(r) /\ Starving(r, w, "r_inc")')
        /\ Starving(r, w, "r_inc") =>
               ENABLED (ReadGrant(r) /\ Starving(r, w, "r_hold")')

\* A thread in write() is about to load the reader count while another
\* holds a Key granted with no WritableKey live.
C23_Witness ==
    \E r, w \in Threads :
        /\ StarvingAtReaders(r, w)
        /\ clean[r] /\ nacq = 1

\* C24: the file of a cell is written only by a thread that holds a
\* WritableKey on the cell, in the drop of that key and before the drop
\* stores false in the writer flag: no step of read(), of a Key's deref or
\* drop, or of the loop of write() changes the file or its cursor, and the
\* step that clears the flag does not write.
C24_FileWrittenByHolder ==
    /\ [][(file' # file \/ fpos' # fpos) =>
              /\ writer' = writer
              /\ \E t \in Threads :
                     /\ pc[t] = "w_hold" /\ pc'[t] = "w_clear"
                     /\ \A u \in Threads \ {t} : pc'[u] = pc[u]]_vars
    /\ [][(writer /\ ~writer') =>
              /\ file' = file /\ fpos' = fpos
              /\ \E t \in Threads : pc[t] = "w_clear" /\ pc'[t] = "idle"]_vars

\* A holder has written the file and has not yet cleared the flag, while
\* another thread holds a Key.
C24_Witness ==
    /\ writer /\ file # Serialize(LockV0)
    /\ \E t \in Threads : pc[t] = "w_clear"
    /\ \E t \in Threads : pc[t] = "r_hold"

====
